---------------------------- MODULE Spec2Model ----------------------------
(***************************************************************************)
(* The API server of internal/ls/api.go: the msgpack-framed envelope codec *)
(* (readRequest, readBin, writeMessage, writeBin), the capability registry *)
(* (enableCallback, handleConfigure), the call client (Server.call), the   *)
(* host bridge adapters (DirectoryExists .. GetPackageScopeForPath) and    *)
(* the message pump (Server.Run) with its deferred recover closures.       *)
(*                                                                         *)
(* Go strings and byte slices are sequences of bytes (0..255).             *)
(***************************************************************************)
EXTENDS Integers, Sequences, FiniteSets, TLC

(***************************************************************************)
(* Bounds of the model.                                                    *)
(***************************************************************************)
\* Requests read by one run of Server.Run.
MaxRequests == 3
\* Adapter invocations made by the handler of one request.
MaxCalls == 2
\* Goroutines calling Server.call concurrently.
NumCallers == 2
\* Calls made by the concurrent callers altogether.
MaxExchanges == 3
\* ast.Diagnostics of one program.
NumDiagnostics == 2
\* Calls of addDiagnostic made by one LanguageService.GetDiagnostics.
MaxAdds == 2

(***************************************************************************)
(* Program constants.                                                      *)
(***************************************************************************)
MessageTypeUnknown == 0
MessageTypeRequest == 1
MessageTypeCallResponse == 2
MessageTypeCallError == 3
MessageTypeResponse == 4
MessageTypeError == 5
MessageTypeCall == 6

MessagePackTypeFixedArray3 == 147
MessagePackTypeBin8 == 196
MessagePackTypeBin16 == 197
MessagePackTypeBin32 == 198
MessagePackTypeU8 == 204

CallbackDirectoryExists == 1
CallbackFileExists == 2
CallbackGetAccessibleEntries == 4
CallbackReadFile == 8
CallbackRealpath == 16
CallbackResolveModuleName == 32
CallbackResolveTypeReferenceDirective == 64
CallbackGetPackageJsonScopeIfApplicable == 128
CallbackGetPackageScopeForPath == 256

(***************************************************************************)
(* String literals of the source, as their bytes.                          *)
(***************************************************************************)
\* "configure"
str_configure ==
    <<99, 111, 110, 102, 105, 103, 117, 114, 101>>
\* "echo"
str_echo ==
    <<101, 99, 104, 111>>
\* "X"
str_X ==
    <<88>>
\* "directoryExists"
str_directoryExists ==
    <<100, 105, 114, 101, 99, 116, 111, 114, 121, 69, 120, 105, 115, 116, 115>>
\* "fileExists"
str_fileExists ==
    <<102, 105, 108, 101, 69, 120, 105, 115, 116, 115>>
\* "getAccessibleEntries"
str_getAccessibleEntries ==
    <<103, 101, 116, 65, 99, 99, 101, 115, 115, 105, 98, 108, 101, 69, 110, 116, 114, 105, 101,
    115>>
\* "readFile"
str_readFile ==
    <<114, 101, 97, 100, 70, 105, 108, 101>>
\* "realpath"
str_realpath ==
    <<114, 101, 97, 108, 112, 97, 116, 104>>
\* "resolveModuleName"
str_resolveModuleName ==
    <<114, 101, 115, 111, 108, 118, 101, 77, 111, 100, 117, 108, 101, 78, 97, 109, 101>>
\* "resolveTypeReferenceDirective"
str_resolveTypeReferenceDirective ==
    <<114, 101, 115, 111, 108, 118, 101, 84, 121, 112, 101, 82, 101, 102, 101, 114, 101, 110,
    99, 101, 68, 105, 114, 101, 99, 116, 105, 118, 101>>
\* "getPackageJsonScopeIfApplicable"
str_getPackageJsonScopeIfApplicable ==
    <<103, 101, 116, 80, 97, 99, 107, 97, 103, 101, 74, 115, 111, 110, 83, 99, 111, 112, 101,
    73, 102, 65, 112, 112, 108, 105, 99, 97, 98, 108, 101>>
\* "getPackageScopeForPath"
str_getPackageScopeForPath ==
    <<103, 101, 116, 80, 97, 99, 107, 97, 103, 101, 83, 99, 111, 112, 101, 70, 111, 114, 80,
    97, 116, 104>>
\* "bogus"
str_bogus ==
    <<98, 111, 103, 117, 115>>
\* "true"
str_true ==
    <<116, 114, 117, 101>>
\* "false"
str_false ==
    <<102, 97, 108, 115, 101>>
\* "null"
str_null ==
    <<110, 117, 108, 108>>
\* "bundled://"
str_bundled ==
    <<98, 117, 110, 100, 108, 101, 100, 58, 47, 47>>
\* "unknown callback: "
str_unknownCallback ==
    <<117, 110, 107, 110, 111, 119, 110, 32, 99, 97, 108, 108, 98, 97, 99, 107, 58, 32>>
\* "panic handling request: "
str_panicHandling ==
    <<112, 97, 110, 105, 99, 32, 104, 97, 110, 100, 108, 105, 110, 103, 32, 114, 101, 113, 117,
    101, 115, 116, 58, 32>>
\* "fatal error sending panic response"
str_fatal ==
    <<102, 97, 116, 97, 108, 32, 101, 114, 114, 111, 114, 32, 115, 101, 110, 100, 105, 110,
    103, 32, 112, 97, 110, 105, 99, 32, 114, 101, 115, 112, 111, 110, 115, 101>>
\* ": "
str_colon ==
    <<58, 32>>
\* "\"moduleName\":"
str_moduleNameKey ==
    <<34, 109, 111, 100, 117, 108, 101, 78, 97, 109, 101, 34, 58>>
\* "\"typeReferenceDirectiveName\":"
str_typeRefKey ==
    <<34, 116, 121, 112, 101, 82, 101, 102, 101, 114, 101, 110, 99, 101, 68, 105, 114, 101,
    99, 116, 105, 118, 101, 78, 97, 109, 101, 34, 58>>
\* "\"containingFile\":"
str_containingFileKey ==
    <<34, 99, 111, 110, 116, 97, 105, 110, 105, 110, 103, 70, 105, 108, 101, 34, 58>>
\* "\"resolutionMode\":0"
str_resolutionMode ==
    <<34, 114, 101, 115, 111, 108, 117, 116, 105, 111, 110, 77, 111, 100, 101, 34, 58, 48>>
\* "\"redirectedReference\":null"
str_redirectedReference ==
    <<34, 114, 101, 100, 105, 114, 101, 99, 116, 101, 100, 82, 101, 102, 101, 114, 101,
    110, 99, 101, 34, 58, 110, 117, 108, 108>>

(***************************************************************************)
(* Texts of the errors whose wording lives outside this file.              *)
(***************************************************************************)
\* "EOF"
txt_EOF ==
    <<69, 79, 70>>
\* "unexpected EOF"
txt_UnexpectedEOF ==
    <<117, 110, 101, 120, 112, 101, 99, 116, 101, 100, 32, 69, 79, 70>>
\* "invalid request"
txt_InvalidRequest ==
    <<105, 110, 118, 97, 108, 105, 100, 32, 114, 101, 113, 117, 101, 115, 116>>
\* "client error"
txt_ClientError ==
    <<99, 108, 105, 101, 110, 116, 32, 101, 114, 114, 111, 114>>
\* "json: syntax error"
txt_json ==
    <<106, 115, 111, 110, 58, 32, 115, 121, 110, 116, 97, 120, 32, 101, 114, 114, 111, 114>>
\* "nil pointer dereference"
txt_nilDeref ==
    <<110, 105, 108, 32, 112, 111, 105, 110, 116, 101, 114, 32, 100, 101, 114, 101, 102, 101,
    114, 101, 110, 99, 101>>
\* "handler failed"
txt_handler ==
    <<104, 97, 110, 100, 108, 101, 114, 32, 102, 97, 105, 108, 101, 100>>
\* "\ngoroutine 1"
txt_stack ==
    <<10, 103, 111, 114, 111, 117, 116, 105, 110, 101, 32, 49>>
\* "broken pipe"
txt_io ==
    <<98, 114, 111, 107, 101, 110, 32, 112, 105, 112, 101>>

(***************************************************************************)
(* The inputs the model draws from: paths, payloads, JSON texts.           *)
(***************************************************************************)
\* "/a"
PathA ==
    <<47, 97>>
\* "bundled://b"
PathB ==
    <<98, 117, 110, 100, 108, 101, 100, 58, 47, 47, 98>>
\* "hello"
PayloadHello ==
    <<104, 101, 108, 108, 111>>
\* "\"s\""
JsonStr ==
    <<34, 115, 34>>
\* "{}"
JsonObj ==
    <<123, 125>>
\* "{"
JsonBad ==
    <<123>>
\* "{\"Contents\":\"{}\"}"
JsonPkg ==
    <<123, 34, 67, 111, 110, 116, 101, 110, 116, 115, 34, 58, 34, 123, 125, 34, 125>>
\* "{\"Contents\":\"{\"}"
JsonPkgBad ==
    <<123, 34, 67, 111, 110, 116, 101, 110, 116, 115, 34, 58, 34, 123, 34, 125>>
\* "denied"
PeerText ==
    <<100, 101, 110, 105, 101, 100>>
\* "ok"
HandlerResult ==
    <<111, 107>>

\* Payloads of configure requests: {"callbacks":[...]}.
\* "{\"callbacks\":[\"readFile\"]}"
CfgReadFile ==
    <<123, 34, 99, 97, 108, 108, 98, 97, 99, 107, 115, 34, 58, 91, 34, 114, 101, 97, 100, 70,
    105, 108, 101, 34, 93, 125>>
\* "{\"callbacks\":[\"fileExists\"]}"
CfgFileExists ==
    <<123, 34, 99, 97, 108, 108, 98, 97, 99, 107, 115, 34, 58, 91, 34, 102, 105, 108, 101, 69,
    120, 105, 115, 116, 115, 34, 93, 125>>
\* "{\"callbacks\":[\"fileExists\",\"fileExists\"]}"
CfgFileExistsTwice ==
    <<123, 34, 99, 97, 108, 108, 98, 97, 99, 107, 115, 34, 58, 91, 34, 102, 105, 108, 101, 69,
    120, 105, 115, 116, 115, 34, 44, 34, 102, 105, 108, 101, 69, 120, 105, 115, 116, 115, 34,
    93, 125>>
\* "{\"callbacks\":[\"bogus\"]}"
CfgBogus ==
    <<123, 34, 99, 97, 108, 108, 98, 97, 99, 107, 115, 34, 58, 91, 34, 98, 111, 103, 117, 115,
    34, 93, 125>>
\* "{\"callbacks\":[\"fileExists\",\"bogus\"]}"
CfgFileExistsBogus ==
    <<123, 34, 99, 97, 108, 108, 98, 97, 99, 107, 115, 34, 58, 91, 34, 102, 105, 108, 101, 69,
    120, 105, 115, 116, 115, 34, 44, 34, 98, 111, 103, 117, 115, 34, 93, 125>>
\* "{\"callbacks\":[\"bogus\",\"fileExists\"]}"
CfgBogusFileExists ==
    <<123, 34, 99, 97, 108, 108, 98, 97, 99, 107, 115, 34, 58, 91, 34, 98, 111, 103, 117, 115,
    34, 44, 34, 102, 105, 108, 101, 69, 120, 105, 115, 116, 115, 34, 93, 125>>
\* "{\"callbacks\":[\"directoryExists\",\"fileExists\",\"getAccessibleEntries\",\"readFile\",\"realpath\",\"resolveModuleName\",\"resolveTypeReferenceDirective\",\"getPackageJsonScopeIfApplicable\",\"getPackageScopeForPath\"]}"
CfgAll ==
    <<123, 34, 99, 97, 108, 108, 98, 97, 99, 107, 115, 34, 58, 91, 34, 100, 105, 114, 101, 99,
    116, 111, 114, 121, 69, 120, 105, 115, 116, 115, 34, 44, 34, 102, 105, 108, 101, 69, 120,
    105, 115, 116, 115, 34, 44, 34, 103, 101, 116, 65, 99, 99, 101, 115, 115, 105, 98, 108,
    101, 69, 110, 116, 114, 105, 101, 115, 34, 44, 34, 114, 101, 97, 100, 70, 105, 108, 101,
    34, 44, 34, 114, 101, 97, 108, 112, 97, 116, 104, 34, 44, 34, 114, 101, 115, 111, 108, 118,
    101, 77, 111, 100, 117, 108, 101, 78, 97, 109, 101, 34, 44, 34, 114, 101, 115, 111, 108,
    118, 101, 84, 121, 112, 101, 82, 101, 102, 101, 114, 101, 110, 99, 101, 68, 105, 114, 101,
    99, 116, 105, 118, 101, 34, 44, 34, 103, 101, 116, 80, 97, 99, 107, 97, 103, 101, 74, 115,
    111, 110, 83, 99, 111, 112, 101, 73, 102, 65, 112, 112, 108, 105, 99, 97, 98, 108, 101, 34,
    44, 34, 103, 101, 116, 80, 97, 99, 107, 97, 103, 101, 83, 99, 111, 112, 101, 70, 111, 114,
    80, 97, 116, 104, 34, 93, 125>>

(***************************************************************************)
(* Errors.  An error is its class and the detail its text carries; Error   *)
(* is err.Error().                                                         *)
(***************************************************************************)
nil == [class |-> "nil", detail |-> <<>>]

\* The element of a set of one element.  {F(x) : x \in {e}} is F of the
\* value of e, with e evaluated once.
Only(S) == CHOOSE x \in S : TRUE

Err(class, detail) == [class |-> class, detail |-> detail]

ClassText(class) ==
    CASE class = "EOF" -> txt_EOF
      [] class = "ErrUnexpectedEOF" -> txt_UnexpectedEOF
      [] class = "ErrInvalidRequest" -> txt_InvalidRequest
      [] class = "ErrClientError" -> txt_ClientError \o str_colon
      [] class = "unknownCallback" -> str_unknownCallback
      [] class = "json" -> txt_json
      [] class = "nilDeref" -> txt_nilDeref
      [] class = "handler" -> txt_handler
      [] class = "io" -> txt_io
      [] class = "fatal" -> str_fatal
      [] class = "panic" -> str_panicHandling
      [] OTHER -> <<>>

Error(err) == ClassText(err.class) \o err.detail

TransportClasses == {"EOF", "ErrUnexpectedEOF", "io"}

(***************************************************************************)
(* The envelope codec.  A reader is the sequence of bytes left on s.r; a   *)
(* read returns what it decoded and the bytes it left.                     *)
(***************************************************************************)
\* An IsValid that lets every kind through.
IsValid_Any(m) == TRUE

IsValid(m) == m >= MessageTypeRequest /\ m <= MessageTypeCall

\* The big-endian value of a sequence of bytes.
RECURSIVE BigEndian(_)
BigEndian(bs) ==
    IF Len(bs) = 0 THEN 0
    ELSE 256 * BigEndian(SubSeq(bs, 1, Len(bs) - 1)) + bs[Len(bs)]

\* The n low bytes of v, most significant first.
RECURSIVE PutBigEndian(_, _)
PutBigEndian(v, n) ==
    IF n = 0 THEN <<>>
    ELSE Append(PutBigEndian(v \div 256, n - 1), v % 256)

\* io.ReadFull and binary.Read on fewer bytes than asked for.
ShortRead(available) ==
    IF available = 0 THEN Err("EOF", <<>>) ELSE Err("ErrUnexpectedEOF", <<>>)

SizeWidth(t) ==
    CASE t = MessagePackTypeBin8 -> 1
      [] t = MessagePackTypeBin16 -> 2
      [] t = MessagePackTypeBin32 -> 4
      [] OTHER -> 0

readBin(r) ==
    IF Len(r) = 0
    THEN [payload |-> <<>>, err |-> Err("EOF", <<>>), rest |-> r]
    ELSE LET t == Head(r)
             w == SizeWidth(t)
             avail == Len(r) - 1
             size == BigEndian(SubSeq(r, 2, 1 + w))
             left == avail - w
         IN  IF w = 0
             THEN [payload |-> <<>>, err |-> Err("ErrInvalidRequest", <<>>),
                   rest |-> Tail(r)]
             ELSE IF avail < w
             THEN [payload |-> <<>>, err |-> ShortRead(avail), rest |-> <<>>]
             ELSE IF left < size
             THEN [payload |-> <<>>, err |-> ShortRead(left), rest |-> <<>>]
             ELSE [payload |-> SubSeq(r, 2 + w, 1 + w + size),
                   err |-> nil,
                   rest |-> SubSeq(r, 2 + w + size, Len(r))]

ReadFail(messageType, method, err, rest) ==
    [messageType |-> messageType, method |-> method, payload |-> <<>>,
     err |-> err, rest |-> rest]

readRequest(r, expectedMethod) ==
    IF Len(r) = 0
    THEN ReadFail(MessageTypeUnknown, <<>>, Err("EOF", <<>>), r)
    ELSE IF r[1] # MessagePackTypeFixedArray3
    THEN ReadFail(MessageTypeUnknown, <<>>, Err("ErrInvalidRequest", <<>>), Tail(r))
    ELSE IF Len(r) = 1
    THEN ReadFail(MessageTypeUnknown, <<>>, Err("EOF", <<>>), <<>>)
    ELSE IF r[2] # MessagePackTypeU8
    THEN ReadFail(MessageTypeUnknown, <<>>, Err("ErrInvalidRequest", <<>>),
                  SubSeq(r, 3, Len(r)))
    ELSE IF Len(r) = 2
    THEN ReadFail(MessageTypeUnknown, <<>>, Err("EOF", <<>>), <<>>)
    ELSE IF ~IsValid(r[3])
    THEN ReadFail(r[3], <<>>, Err("ErrInvalidRequest", <<>>), SubSeq(r, 4, Len(r)))
    ELSE Only({
        IF rawMethod.err # nil
        THEN ReadFail(r[3], <<>>, rawMethod.err, rawMethod.rest)
        ELSE IF expectedMethod # <<>> /\ rawMethod.payload # expectedMethod
        THEN ReadFail(r[3], rawMethod.payload, Err("ErrInvalidRequest", <<>>),
                      rawMethod.rest)
        ELSE Only({[messageType |-> r[3],
                    method |-> rawMethod.payload,
                    payload |-> body.payload,
                    err |-> body.err,
                    rest |-> body.rest] : body \in {readBin(rawMethod.rest)}})
        : rawMethod \in {readBin(SubSeq(r, 4, Len(r)))}})

\* writeBin with <= where the code has <.
writeBin_OffByOne(payload) ==
    LET length == Len(payload)
    IN  IF length <= 256
        THEN <<MessagePackTypeBin8, length % 256>> \o payload
        ELSE IF length <= 65536
        THEN <<MessagePackTypeBin16>> \o PutBigEndian(length % 65536, 2) \o payload
        ELSE <<MessagePackTypeBin32>> \o PutBigEndian(length, 4) \o payload

\* uint32(length) is length: a length is below 2^31 here.
writeBin(payload) ==
    LET length == Len(payload)
    IN  IF length < 256
        THEN <<MessagePackTypeBin8, length % 256>> \o payload
        ELSE IF length < 65536
        THEN <<MessagePackTypeBin16>> \o PutBigEndian(length % 65536, 2) \o payload
        ELSE <<MessagePackTypeBin32>> \o PutBigEndian(length, 4) \o payload

\* The bytes writeMessage puts into s.w before the payload.
writeHeader(messageType, method) ==
    <<MessagePackTypeFixedArray3, MessagePackTypeU8, messageType>>
        \o writeBin(method)

writeMessage(messageType, method, payload) ==
    writeHeader(messageType, method) \o writeBin(payload)

(***************************************************************************)
(* The capability registry: Server.enabledCallbacks is a bit mask.         *)
(***************************************************************************)
HasBit(mask, bit) == (mask \div bit) % 2 = 1

\* mask | bit, for a one-bit value.
BitOr(mask, bit) == IF HasBit(mask, bit) THEN mask ELSE mask + bit

CallbackBits ==
    {CallbackDirectoryExists, CallbackFileExists, CallbackGetAccessibleEntries,
     CallbackReadFile, CallbackRealpath, CallbackResolveModuleName,
     CallbackResolveTypeReferenceDirective,
     CallbackGetPackageJsonScopeIfApplicable, CallbackGetPackageScopeForPath}

CallbackEnabled(enabled, callback) == HasBit(enabled, callback)

\* The bit a name stands for; 0 for a name the switch does not list.
CallbackOf(callback) ==
    CASE callback = str_directoryExists -> CallbackDirectoryExists
      [] callback = str_fileExists -> CallbackFileExists
      [] callback = str_getAccessibleEntries -> CallbackGetAccessibleEntries
      [] callback = str_readFile -> CallbackReadFile
      [] callback = str_realpath -> CallbackRealpath
      [] callback = str_resolveModuleName -> CallbackResolveModuleName
      [] callback = str_resolveTypeReferenceDirective ->
             CallbackResolveTypeReferenceDirective
      [] callback = str_getPackageJsonScopeIfApplicable ->
             CallbackGetPackageJsonScopeIfApplicable
      [] callback = str_getPackageScopeForPath -> CallbackGetPackageScopeForPath
      [] OTHER -> 0

\* enableCallback with = where the code has |=.
enableCallback_Assign(enabled, callback) ==
    IF CallbackOf(callback) # 0
    THEN [enabled |-> CallbackOf(callback), err |-> nil]
    ELSE [enabled |-> enabled, err |-> Err("unknownCallback", callback)]

enableCallback(enabled, callback) ==
    IF CallbackOf(callback) # 0
    THEN [enabled |-> BitOr(enabled, CallbackOf(callback)), err |-> nil]
    ELSE [enabled |-> enabled, err |-> Err("unknownCallback", callback)]

(***************************************************************************)
(* JSON, as far as the texts the model draws from go.                      *)
(***************************************************************************)
\* json.Marshal of a string without characters to escape: the string in
\* double quotes (byte 34).
MarshalString(s) == <<34>> \o s \o <<34>>

IsJSONString(b) ==
    /\ Len(b) >= 2
    /\ b[1] = 34
    /\ b[Len(b)] = 34
    /\ \A i \in 2..(Len(b) - 1) : b[i] # 34 /\ b[i] # 92

JSONObjects ==
    {JsonObj, JsonPkg, JsonPkgBad, CfgReadFile, CfgFileExists, CfgFileExistsTwice,
     CfgBogus, CfgFileExistsBogus, CfgBogusFileExists, CfgAll}

JSONKind(b) ==
    CASE b = str_null -> "null"
      [] b = str_true \/ b = str_false -> "bool"
      [] IsJSONString(b) -> "string"
      [] b \in JSONObjects -> "object"
      [] OTHER -> "invalid"

\* json.Unmarshal into a string: null leaves the zero value.
UnmarshalString(b) ==
    CASE JSONKind(b) = "string" -> [value |-> SubSeq(b, 2, Len(b) - 1), err |-> nil]
      [] JSONKind(b) = "null" -> [value |-> <<>>, err |-> nil]
      [] OTHER -> [value |-> <<>>, err |-> Err("json", <<>>)]

\* json.Unmarshal into a struct or a pointer to one: null leaves nil (the zero
\* value), an object fills it from the text.
UnmarshalStruct(b) ==
    CASE JSONKind(b) = "object" -> [isNil |-> FALSE, text |-> b, err |-> nil]
      [] JSONKind(b) = "null" -> [isNil |-> TRUE, text |-> <<>>, err |-> nil]
      [] OTHER -> [isNil |-> TRUE, text |-> <<>>, err |-> Err("json", <<>>)]

\* ConfigureParams.Callbacks of a configure payload.
Callbacks(b) ==
    CASE b = CfgReadFile -> <<str_readFile>>
      [] b = CfgFileExists -> <<str_fileExists>>
      [] b = CfgFileExistsTwice -> <<str_fileExists, str_fileExists>>
      [] b = CfgBogus -> <<str_bogus>>
      [] b = CfgFileExistsBogus -> <<str_fileExists, str_bogus>>
      [] b = CfgBogusFileExists -> <<str_bogus, str_fileExists>>
      [] b = CfgAll ->
             <<str_directoryExists, str_fileExists, str_getAccessibleEntries,
               str_readFile, str_realpath, str_resolveModuleName,
               str_resolveTypeReferenceDirective,
               str_getPackageJsonScopeIfApplicable, str_getPackageScopeForPath>>
      [] OTHER -> <<>>

\* PackageJsonIfApplicable.Contents of a reply.
Contents(b) ==
    CASE b = JsonPkg -> JsonObj
      [] b = JsonPkgBad -> JsonBad
      [] OTHER -> <<>>

\* packagejson.Parse: the text has to be a JSON object.
PackageJsonParse(b) ==
    IF JSONKind(b) = "object" THEN nil ELSE Err("json", <<>>)

RECURSIVE EnableFrom(_, _, _)
\* A loop that enables the i-th name and leaves the others.
EnableFrom_One(enabled, callbacks, i) ==
    IF i > Len(callbacks)
    THEN [enabled |-> enabled, err |-> nil]
    ELSE enableCallback(enabled, callbacks[i])

\* The loop of handleConfigure over params.Callbacks, from the i-th name on.
EnableFrom(enabled, callbacks, i) ==
    IF i > Len(callbacks)
    THEN [enabled |-> enabled, err |-> nil]
    ELSE LET r == enableCallback(enabled, callbacks[i])
         IN  IF r.err # nil
             THEN r
             ELSE EnableFrom(r.enabled, callbacks, i + 1)

\* handleConfigure: the registry it leaves, the error it returns, or the
\* panic of params.Callbacks on the nil params that the payload null leaves.
handleConfigure(enabled, payload) ==
    LET params == UnmarshalStruct(payload)
    IN  IF params.err # nil
        THEN [enabled |-> enabled, err |-> Err("ErrInvalidRequest", str_colon \o Error(params.err)),
              panic |-> nil]
        ELSE IF params.isNil
        THEN [enabled |-> enabled, err |-> nil, panic |-> Err("nilDeref", <<>>)]
        ELSE LET r == EnableFrom(enabled, Callbacks(payload), 1)
             IN  [enabled |-> r.enabled, err |-> r.err, panic |-> nil]

(***************************************************************************)
(* The writer s.w.  A bufio.Writer keeps the first error of its underlying *)
(* writer and fails every later write with it; failAt = n says that the    *)
(* transport breaks at the n-th write from now (0: it does not).           *)
(***************************************************************************)
Writer(err, failAt) == [err |-> err, failAt |-> failAt]

\* A writer that forgets its error: only the failAt-th write fails.
Put_Forgets(w, bytes) ==
    IF w.failAt = 1
    THEN [w |-> Writer(TRUE, 0), err |-> Err("io", <<>>), out |-> <<>>]
    ELSE [w |-> Writer(FALSE, IF w.failAt > 1 THEN w.failAt - 1 ELSE 0),
          err |-> nil, out |-> <<bytes>>]

\* One writeMessage through writer w: the envelope reaches the wire whole, or
\* the write fails and the writer keeps the error.
Put(w, bytes) ==
    IF w.err \/ w.failAt = 1
    THEN [w |-> Writer(TRUE, 0), err |-> Err("io", <<>>), out |-> <<>>]
    ELSE [w |-> Writer(FALSE, IF w.failAt > 1 THEN w.failAt - 1 ELSE 0),
          err |-> nil, out |-> <<bytes>>]

sendResponse(w, method, result) ==
    Put(w, writeMessage(MessageTypeResponse, method, result))

sendError(w, method, err) ==
    Put(w, writeMessage(MessageTypeError, method, Error(err)))

(***************************************************************************)
(* The call client.  call is Server.call between Lock and Unlock: payload  *)
(* is the marshalled argument, w the writer and r the bytes the peer sends *)
(* next.                                                                   *)
(***************************************************************************)
CallResult(payload, err, sent, read) ==
    [payload |-> payload, err |-> err, w |-> sent.w, out |-> sent.out,
     read |-> read]

\* callReply that does not test the envelope's type.
callReply_AnyType(reply) ==
    IF reply.err # nil
    THEN [payload |-> <<>>, err |-> reply.err]
    ELSE IF reply.messageType = MessageTypeCallError
    THEN [payload |-> <<>>,
          err |-> Err("ErrClientError", reply.payload)]
    ELSE [payload |-> reply.payload, err |-> nil]

\* What call makes of the envelope it read.
callReply(reply) ==
    IF reply.err # nil
    THEN [payload |-> <<>>, err |-> reply.err]
    ELSE IF reply.messageType # MessageTypeCallResponse
            /\ reply.messageType # MessageTypeCallError
    THEN [payload |-> <<>>, err |-> Err("ErrInvalidRequest", <<>>)]
    ELSE IF reply.messageType = MessageTypeCallError
    THEN [payload |-> <<>>,
          err |-> Err("ErrClientError", reply.payload)]
    ELSE [payload |-> reply.payload, err |-> nil]

call(method, payload, w, r) ==
    Only({
        IF sent.err # nil
        THEN CallResult(<<>>, sent.err, sent, FALSE)
        ELSE Only({CallResult(got.payload, got.err, sent, TRUE) :
                       got \in {Only({callReply(reply) :
                                          reply \in {readRequest(r, method)}})}})
        : sent \in {Put(w, writeMessage(MessageTypeCall, method, payload))}})

(***************************************************************************)
(* The host bridge.  Each adapter method is given the registry, its        *)
(* argument, the writer, the bytes the peer sends next and the answer      *)
(* local of the local implementation (s.fs or r.inner), and tells whether  *)
(* it called, what it returned or panicked with, and whether it consulted  *)
(* the local implementation.                                               *)
(***************************************************************************)
\* What an adapter method returns: a boolean, the contents of a file and
\* whether it was found, a path, or the structure a JSON text was parsed into.
Value(kind, flag, data) == [kind |-> kind, flag |-> flag, data |-> data]
Bool(b) == Value("bool", b, <<>>)
File(contents, ok) == Value("file", ok, contents)
Path(path) == Value("path", TRUE, path)
Struct(kind, text) == Value(kind, TRUE, text)

NoCall(w) ==
    [payload |-> <<>>, err |-> nil, w |-> w, out |-> <<>>, read |-> FALSE]

Outcome(called, c, panic, value, usedLocal) ==
    [called |-> called, sent |-> c.out # <<>>, read |-> c.read, reply |-> c.payload,
     callErr |-> c.err, w |-> c.w, out |-> c.out,
     panic |-> panic, value |-> value, usedLocal |-> usedLocal]

Returns(called, c, value) == Outcome(called, c, nil, value, FALSE)
Falls(called, c, local) == Outcome(called, c, nil, local, TRUE)
\* An adapter that goes on after an error instead of panicking.
Panics_GoesOn(c, err) == Outcome(TRUE, c, nil, Value("none", FALSE, <<>>), TRUE)
\* panic(err) in an adapter method.
Panics(c, err) == Outcome(TRUE, c, err, Value("none", FALSE, <<>>), FALSE)

HasPrefix(s, prefix) ==
    Len(s) >= Len(prefix) /\ SubSeq(s, 1, Len(prefix)) = prefix

\* In each method, c is what s.call returned.
DirectoryExists(enabled, path, w, r, local) ==
    IF HasBit(enabled, CallbackDirectoryExists)
    THEN Only({
             IF c.err # nil THEN Panics(c, c.err)
             ELSE IF Len(c.payload) > 0
             THEN Returns(TRUE, c, Bool(c.payload = str_true))
             ELSE Falls(TRUE, c, local)
             : c \in {call(str_directoryExists, MarshalString(path), w, r)}})
    ELSE Falls(FALSE, NoCall(w), local)

\* FileExists that does not test the reply's length.
FileExists_AnyLength(enabled, path, w, r, local) ==
    IF HasBit(enabled, CallbackFileExists)
    THEN Only({
             IF c.err # nil THEN Panics(c, c.err)
             ELSE Returns(TRUE, c, Bool(c.payload = str_true))
             : c \in {call(str_fileExists, MarshalString(path), w, r)}})
    ELSE Falls(FALSE, NoCall(w), local)

FileExists(enabled, path, w, r, local) ==
    IF HasBit(enabled, CallbackFileExists)
    THEN Only({
             IF c.err # nil THEN Panics(c, c.err)
             ELSE IF Len(c.payload) > 0
             THEN Returns(TRUE, c, Bool(c.payload = str_true))
             ELSE Falls(TRUE, c, local)
             : c \in {call(str_fileExists, MarshalString(path), w, r)}})
    ELSE Falls(FALSE, NoCall(w), local)

GetAccessibleEntries(enabled, path, w, r, local) ==
    IF HasBit(enabled, CallbackGetAccessibleEntries)
    THEN Only({
             LET rawEntries == UnmarshalStruct(c.payload)
             IN  IF c.err # nil THEN Panics(c, c.err)
                 ELSE IF Len(c.payload) > 0
                 THEN IF rawEntries.err # nil THEN Panics(c, rawEntries.err)
                      ELSE IF ~rawEntries.isNil
                      THEN Returns(TRUE, c, Struct("Entries", rawEntries.text))
                      ELSE Falls(TRUE, c, local)
                 ELSE Falls(TRUE, c, local)
             : c \in {call(str_getAccessibleEntries, MarshalString(path), w, r)}})
    ELSE Falls(FALSE, NoCall(w), local)

\* ReadFile that does not test the path for the bundled:// scheme.
ReadFile_AnyScheme(enabled, path, w, r, local) ==
    IF HasBit(enabled, CallbackReadFile)
    THEN Only({
             LET result == UnmarshalString(c.payload)
             IN  IF c.err # nil THEN Panics(c, c.err)
                 ELSE IF c.payload = str_null
                 THEN Returns(TRUE, c, File(<<>>, FALSE))
                 ELSE IF Len(c.payload) > 0
                 THEN IF result.err # nil THEN Panics(c, result.err)
                      ELSE Returns(TRUE, c, File(result.value, TRUE))
                 ELSE Falls(TRUE, c, local)
             : c \in {call(str_readFile, MarshalString(path), w, r)}})
    ELSE Falls(FALSE, NoCall(w), local)

\* ReadFile that does not test the reply for "null".
ReadFile_NoNull(enabled, path, w, r, local) ==
    IF HasBit(enabled, CallbackReadFile) /\ ~HasPrefix(path, str_bundled)
    THEN Only({
             LET result == UnmarshalString(c.payload)
             IN  IF c.err # nil THEN Panics(c, c.err)
                 ELSE IF Len(c.payload) > 0
                 THEN IF result.err # nil THEN Panics(c, result.err)
                      ELSE Returns(TRUE, c, File(result.value, TRUE))
                 ELSE Falls(TRUE, c, local)
             : c \in {call(str_readFile, MarshalString(path), w, r)}})
    ELSE Falls(FALSE, NoCall(w), local)

ReadFile(enabled, path, w, r, local) ==
    IF HasBit(enabled, CallbackReadFile) /\ ~HasPrefix(path, str_bundled)
    THEN Only({
             LET result == UnmarshalString(c.payload)
             IN  IF c.err # nil THEN Panics(c, c.err)
                 ELSE IF c.payload = str_null
                 THEN Returns(TRUE, c, File(<<>>, FALSE))
                 ELSE IF Len(c.payload) > 0
                 THEN IF result.err # nil THEN Panics(c, result.err)
                      ELSE Returns(TRUE, c, File(result.value, TRUE))
                 ELSE Falls(TRUE, c, local)
             : c \in {call(str_readFile, MarshalString(path), w, r)}})
    ELSE Falls(FALSE, NoCall(w), local)

Realpath(enabled, path, w, r, local) ==
    IF HasBit(enabled, CallbackRealpath)
    THEN Only({
             LET result == UnmarshalString(c.payload)
             IN  IF c.err # nil THEN Panics(c, c.err)
                 ELSE IF Len(c.payload) > 0
                 THEN IF result.err # nil THEN Panics(c, result.err)
                      ELSE Returns(TRUE, c, Path(result.value))
                 ELSE Falls(TRUE, c, local)
             : c \in {call(str_realpath, MarshalString(path), w, r)}})
    ELSE Falls(FALSE, NoCall(w), local)

\* json.Marshal of the argument map of ResolveModuleName and
\* ResolveTypeReferenceDirective, with resolution mode 0 and no redirected
\* reference: the members, numbered as the map literal lists them, are
\* written in the order the map is traversed in.
MarshalResolve(nameKey, name, containingFile, order) ==
    LET members == <<nameKey \o MarshalString(name),
                     str_containingFileKey \o MarshalString(containingFile),
                     str_resolutionMode,
                     str_redirectedReference>>
    IN  <<123>> \o members[order[1]] \o <<44>> \o members[order[2]] \o <<44>>
              \o members[order[3]] \o <<44>> \o members[order[4]] \o <<125>>

GetPackageJsonScopeIfApplicable(enabled, path, w, r, local) ==
    IF CallbackEnabled(enabled, CallbackGetPackageJsonScopeIfApplicable)
    THEN Only({
             LET res == UnmarshalStruct(c.payload)
                 contents == PackageJsonParse(Contents(c.payload))
             IN  IF c.err # nil THEN Panics(c, c.err)
                 ELSE IF Len(c.payload) > 0
                 THEN IF res.err # nil THEN Panics(c, res.err)
                      ELSE IF contents # nil THEN Panics(c, contents)
                      ELSE Returns(TRUE, c, Struct("InfoCacheEntry", c.payload))
                 ELSE Returns(TRUE, c, Value("nil", FALSE, <<>>))
             : c \in {call(str_getPackageJsonScopeIfApplicable, MarshalString(path),
                           w, r)}})
    ELSE Falls(FALSE, NoCall(w), local)

GetPackageScopeForPath(enabled, directory, w, r, local) ==
    IF CallbackEnabled(enabled, CallbackGetPackageScopeForPath)
    THEN Only({
             LET res == UnmarshalStruct(c.payload)
             IN  IF c.err # nil THEN Panics(c, c.err)
                 ELSE IF Len(c.payload) > 0
                 THEN IF res.err # nil THEN Panics(c, res.err)
                      ELSE Returns(TRUE, c, Struct("InfoCacheEntry", res.text))
                 ELSE Falls(TRUE, c, local)
             : c \in {call(str_getPackageScopeForPath, MarshalString(directory),
                           w, r)}})
    ELSE Falls(FALSE, NoCall(w), local)

ResolveModuleName(enabled, moduleName, w, r, local, order) ==
    IF CallbackEnabled(enabled, CallbackResolveModuleName)
    THEN Only({
             LET res == UnmarshalStruct(c.payload)
             IN  IF c.err # nil THEN Panics(c, c.err)
                 ELSE IF Len(c.payload) > 0
                 THEN IF res.err # nil THEN Panics(c, res.err)
                      ELSE Returns(TRUE, c, Struct("ResolvedModule", res.text))
                 ELSE Falls(TRUE, c, local)
             : c \in {call(str_resolveModuleName,
                           MarshalResolve(str_moduleNameKey, moduleName, PathA,
                                          order),
                           w, r)}})
    ELSE Falls(FALSE, NoCall(w), local)

ResolveTypeReferenceDirective(enabled, typeReferenceDirectiveName, w, r, local, order) ==
    IF CallbackEnabled(enabled, CallbackResolveTypeReferenceDirective)
    THEN Only({
             LET res == UnmarshalStruct(c.payload)
             IN  IF c.err # nil THEN Panics(c, c.err)
                 ELSE IF Len(c.payload) > 0
                 THEN IF res.err # nil THEN Panics(c, res.err)
                      ELSE Returns(TRUE, c,
                                   Struct("ResolvedTypeReferenceDirective", res.text))
                 ELSE Falls(TRUE, c, local)
             : c \in {call(str_resolveTypeReferenceDirective,
                           MarshalResolve(str_typeRefKey, typeReferenceDirectiveName,
                                          PathA, order),
                           w, r)}})
    ELSE Falls(FALSE, NoCall(w), local)

\* The bridged operations, by the name of their method.
FsOps == {"DirectoryExists", "FileExists", "GetAccessibleEntries", "ReadFile",
          "Realpath"}
ResolverOps == {"ResolveModuleName", "ResolveTypeReferenceDirective",
                "GetPackageJsonScopeIfApplicable", "GetPackageScopeForPath"}
Ops == FsOps \cup ResolverOps

Adapter(op, enabled, arg, w, r, local, order) ==
    CASE op = "DirectoryExists" -> DirectoryExists(enabled, arg, w, r, local)
      [] op = "FileExists" -> FileExists(enabled, arg, w, r, local)
      [] op = "GetAccessibleEntries" -> GetAccessibleEntries(enabled, arg, w, r, local)
      [] op = "ReadFile" -> ReadFile(enabled, arg, w, r, local)
      [] op = "Realpath" -> Realpath(enabled, arg, w, r, local)
      [] op = "ResolveModuleName" ->
             ResolveModuleName(enabled, arg, w, r, local, order)
      [] op = "ResolveTypeReferenceDirective" ->
             ResolveTypeReferenceDirective(enabled, arg, w, r, local, order)
      [] op = "GetPackageJsonScopeIfApplicable" ->
             GetPackageJsonScopeIfApplicable(enabled, arg, w, r, local)
      [] op = "GetPackageScopeForPath" ->
             GetPackageScopeForPath(enabled, arg, w, r, local)

\* The method an operation calls the peer with, and its capability bit.
MethodOf(op) ==
    CASE op = "DirectoryExists" -> str_directoryExists
      [] op = "FileExists" -> str_fileExists
      [] op = "GetAccessibleEntries" -> str_getAccessibleEntries
      [] op = "ReadFile" -> str_readFile
      [] op = "Realpath" -> str_realpath
      [] op = "ResolveModuleName" -> str_resolveModuleName
      [] op = "ResolveTypeReferenceDirective" -> str_resolveTypeReferenceDirective
      [] op = "GetPackageJsonScopeIfApplicable" -> str_getPackageJsonScopeIfApplicable
      [] op = "GetPackageScopeForPath" -> str_getPackageScopeForPath

BitOf(op) == CallbackOf(MethodOf(op))

\* The orders the argument map of an invocation may be traversed in: a map
\* is marshalled only by the two Resolve methods, and only when they call.
\* json.Marshal ranges over the four members of the map as Go does, in an
\* order that is not specified.
Orders(op, enabled) ==
    IF op \in {"ResolveModuleName", "ResolveTypeReferenceDirective"}
       /\ HasBit(enabled, BitOf(op))
    THEN Permutations(1..4)
    ELSE {[i \in 1..4 |-> i]}

\* The answers the local implementation may give.
Locals(op) ==
    CASE op \in {"DirectoryExists", "FileExists"} -> {Bool(TRUE), Bool(FALSE)}
      [] op = "ReadFile" -> {File(PayloadHello, TRUE), File(<<>>, FALSE)}
      [] op = "Realpath" -> {Path(PathA)}
      [] OTHER -> {Value("local", TRUE, <<>>)}

(***************************************************************************)
(* The peer.  A frame is the envelope the peer encodes and the damage the  *)
(* bytes take on the way; Wire is what the reader finds.                   *)
(***************************************************************************)
Frame(messageType, method, payload, damage) ==
    [messageType |-> messageType, method |-> method, payload |-> payload,
     damage |-> damage]

Damages == {"eof", "truncated", "marker"}

Wire(f) ==
    LET b == writeMessage(f.messageType, f.method, f.payload)
    IN  CASE f.damage = "none" -> b
          [] f.damage = "eof" -> <<>>
          [] f.damage = "truncated" -> SubSeq(b, 1, Len(b) - 1)
          [] f.damage = "marker" -> <<146>> \o Tail(b)

ConfigurePayloads ==
    {CfgReadFile, CfgFileExists, CfgFileExistsTwice, CfgBogus, CfgFileExistsBogus,
     CfgBogusFileExists, CfgAll, JsonObj, JsonBad, str_null}

\* What the peer may send while the pump is idle.
TopFrames ==
    {Frame(MessageTypeRequest, str_configure, p, "none") : p \in ConfigurePayloads}
    \cup {Frame(MessageTypeRequest, str_echo, p, "none") : p \in {PayloadHello, <<>>}}
    \cup {Frame(MessageTypeRequest, str_X, <<>>, "none")}
    \cup {Frame(t, str_echo, PayloadHello, "none") : t \in {0, 2, 3, 4, 5, 6, 7}}
    \cup {Frame(MessageTypeRequest, str_echo, PayloadHello, d) : d \in Damages}

\* The reply payloads that matter to an operation.
ReplyPayloads(op) ==
    CASE op \in {"DirectoryExists", "FileExists"} ->
             {<<>>, str_true, str_false, str_null}
      [] op \in {"ReadFile", "Realpath"} -> {<<>>, str_null, JsonStr, str_false}
      [] op = "GetPackageJsonScopeIfApplicable" ->
             {<<>>, str_null, JsonPkg, JsonPkgBad}
      [] OTHER -> {<<>>, str_null, JsonObj, JsonBad}

OtherMethod(m) == IF m = str_readFile THEN str_fileExists ELSE str_readFile

\* What the peer may send while a Call with method m of operation op waits.
ReplyFrames(op) ==
    LET m == MethodOf(op)
    IN  {Frame(MessageTypeCallResponse, m, p, "none") : p \in ReplyPayloads(op)}
        \cup {Frame(MessageTypeCallError, m, PeerText, "none")}
        \cup {Frame(MessageTypeCallResponse, OtherMethod(m), str_true, "none")}
        \cup {Frame(t, m, str_true, "none") : t \in {0, 1, 4, 5, 6, 7}}
        \cup {Frame(MessageTypeCallResponse, m, str_true, d) : d \in Damages}

\* The arguments an operation is tried with.
Args(op) == IF op = "ReadFile" THEN {PathA, PathB} ELSE {PathA}

(***************************************************************************)
(* The state.                                                              *)
(***************************************************************************)
VARIABLES
    pc,                \* where Server.Run is: "idle" (about to read the next
                       \* envelope), "handling" (inside api.HandleRequest),
                       \* "returned", or "crashed" (a panic left Run)
    enabledCallbacks,  \* Server.enabledCallbacks
    requestId,         \* Server.requestId
    defers,            \* the closures Run has deferred: the method each captured
    wErr,              \* whether s.w holds an error
    cur,               \* the request Run read last: its method and payload
    answers,           \* per request, the Response and Error envelopes written
    lastAnswer,        \* the bytes of the last Response or Error envelope written
    nCalls,            \* the Call envelopes written while handling cur
    nOps,              \* the adapter methods invoked while handling cur
    last,              \* the last adapter invocation and how it came out
    runErr,            \* what Run returned
    ended,             \* how the handling of cur ended, and the error it ended with
    probe,             \* one operation tried on its own: arguments and outcome
    callbackMu,        \* Server.callbackMu: the caller holding it, 0 when free
    wbuf,              \* the bytes in s.w that are not flushed yet
    flushed,           \* the bytes of the flushes of s.w, oldest first
    inbox,             \* the bytes the peer has sent that s.r has not read yet
    callers,           \* the goroutines inside Server.call
    exchanges          \* the calls the concurrent callers have started

pumpVars == <<pc, enabledCallbacks, requestId, defers, wErr, cur, answers,
              lastAnswer, nCalls, nOps, last, runErr, ended>>
callVars == <<callbackMu, wbuf, flushed, inbox, callers, exchanges>>
vars == <<pumpVars, probe, callVars>>

NoRequest == [method |-> <<>>, payload |-> <<>>]
NoLast == [op |-> "", called |-> FALSE, sent |-> FALSE, read |-> FALSE,
           callErr |-> nil, panic |-> nil, usedLocal |-> FALSE,
           value |-> [kind |-> "none", flag |-> FALSE, data |-> <<>>]]
NotEnded == [how |-> "", err |-> nil, recovered |-> 0]
NoProbe == [phase |-> "none"]
Callers == 1..NumCallers
IdleCaller == [pc |-> "idle", method |-> <<>>, payload |-> <<>>, result |-> <<>>,
               err |-> nil]

InitRun ==
    /\ pc = "idle"
    /\ enabledCallbacks = 0
    /\ requestId = 0
    /\ defers = <<>>
    /\ wErr = FALSE
    /\ cur = NoRequest
    /\ answers = <<>>
    /\ lastAnswer = <<>>
    /\ nCalls = 0
    /\ nOps = 0
    /\ last = NoLast
    /\ runErr = nil
    /\ ended = NotEnded
    /\ callbackMu = 0
    /\ wbuf = <<>>
    /\ flushed = <<>>
    /\ inbox = <<>>
    /\ callers = [c \in Callers |-> IdleCaller]
    /\ exchanges = 0

Init == InitRun /\ probe = NoProbe

(***************************************************************************)
(* Server.Run.                                                             *)
(***************************************************************************)
\* The error the deferred closure makes of the panic value it recovered.
panicError(p) == Err("panic", Error(p) \o txt_stack)

\* The closures Run deferred, run last first while Run unwinds or returns,
\* from the i-th down; p is the panic under way (nil: none).  A closure that
\* recovers a panic sends the Error envelope for the method it captured, and
\* panics anew when that fails.  recovered counts the closures whose
\* recover() returned a panic.
RECURSIVE RunDeferred(_, _, _, _, _)
RunDeferred(ds, i, p, w, sent) ==
    IF i = 0
    THEN [panic |-> p, w |-> w, sent |-> sent, recovered |-> 0]
    ELSE IF p = nil
    THEN RunDeferred(ds, i - 1, nil, w, sent)
    ELSE Only({
        [u EXCEPT !.recovered = @ + 1]
        : u \in {IF s.err # nil
                 THEN RunDeferred(ds, i - 1, Err("fatal", <<>>), s.w, sent)
                 ELSE RunDeferred(ds, i - 1, nil, s.w,
                                  Append(sent, [request |-> i, bytes |-> s.out[1]]))
                 : s \in {sendError(w, ds[i], panicError(p))}}})

\* The envelope Run answers a handled request with.
Respond(w, method, result, err) ==
    IF err # nil THEN sendError(w, method, err) ELSE sendResponse(w, method, result)

\* answers with the envelopes of sent counted.
RECURSIVE Count(_, _)
Count(a, sent) ==
    IF sent = <<>> THEN a
    ELSE Count([a EXCEPT ![Head(sent).request] = @ + 1], Tail(sent))

Wrote(a, sent) ==
    /\ answers' = Count(a, sent)
    /\ lastAnswer' = IF sent = <<>> THEN lastAnswer ELSE sent[Len(sent)].bytes

\* Run returns err: the deferred closures run and recover nothing.
RunReturns(ds, a, err, how) ==
    \E u \in {RunDeferred(ds, Len(ds), nil, Writer(wErr, 0), <<>>)} :
        /\ pc' = "returned"
        /\ runErr' = err
        /\ ended' = [how |-> how, err |-> err, recovered |-> u.recovered]
        /\ Wrote(a, u.sent)

\* A Run that returns the handler's error after sending it.
RunAnswers_ErrorEnds(ds, a, w, method, result, err) ==
    \E s \in {Respond(w, method, result, err)} :
        /\ wErr' = s.w.err
        /\ IF s.err # nil
           THEN RunReturns(ds, a, s.err, "sendFailed")
           ELSE IF err # nil
           THEN /\ pc' = "returned"
                /\ runErr' = err
                /\ ended' = [how |-> "error", err |-> err, recovered |-> 0]
                /\ Wrote(a, <<[request |-> Len(ds), bytes |-> s.out[1]]>>)
           ELSE /\ pc' = "idle"
                /\ runErr' = runErr
                /\ ended' = [how |-> "response", err |-> err, recovered |-> 0]
                /\ Wrote(a, <<[request |-> Len(ds), bytes |-> s.out[1]]>>)

\* A Run that reads on without answering.
RunAnswers_Silent(ds, a, w, method, result, err) ==
    /\ wErr' = w.err
    /\ pc' = "idle"
    /\ runErr' = runErr
    /\ ended' = [how |-> IF err # nil THEN "error" ELSE "response", err |-> err,
                 recovered |-> 0]
    /\ Wrote(a, <<>>)

\* handleRequest returned result and err: Run answers, and returns the error
\* of a failed write.
RunAnswers(ds, a, w, method, result, err) ==
    \E s \in {Respond(w, method, result, err)} :
        /\ wErr' = s.w.err
        /\ IF s.err # nil
           THEN RunReturns(ds, a, s.err, "sendFailed")
           ELSE /\ pc' = "idle"
                /\ runErr' = runErr
                /\ ended' = [how |-> IF err # nil THEN "error" ELSE "response",
                             err |-> err, recovered |-> 0]
                /\ Wrote(a, <<[request |-> Len(ds), bytes |-> s.out[1]]>>)

\* The handling panicked with p: the deferred closures run, and Run returns
\* nil when one of them recovered the last panic.
RunPanics(ds, a, w, p) ==
    \E u \in {RunDeferred(ds, Len(ds), p, w, <<>>)} :
        /\ wErr' = u.w.err
        /\ pc' = IF u.panic = nil THEN "returned" ELSE "crashed"
        /\ runErr' = u.panic
        /\ ended' = [how |-> IF u.panic = nil THEN "recovered" ELSE "crashed",
                     err |-> p, recovered |-> u.recovered]
        /\ Wrote(a, u.sent)

\* Run reads while idle and readRequest fails: Run returns the error.
RunReadError(f) ==
    /\ pc = "idle"
    /\ \E m \in {readRequest(Wire(f), <<>>)} :
        /\ m.err # nil
        /\ RunReturns(defers, answers, m.err, "readError")
        /\ UNCHANGED <<enabledCallbacks, requestId, defers, wErr, cur, nCalls, nOps,
                       last>>
        /\ UNCHANGED <<probe, callVars>>

\* A Run that answers an envelope that is no Request with an Error envelope
\* before it returns.
RunUnexpected_Answers(f) ==
    /\ pc = "idle"
    /\ \E m \in {readRequest(Wire(f), <<>>)} :
        /\ m.err = nil
        /\ m.messageType # MessageTypeRequest
        /\ pc' = "returned"
        /\ runErr' = Err("ErrInvalidRequest", <<>>)
        /\ ended' = [how |-> "unexpected", err |-> runErr', recovered |-> 0]
        /\ answers' = answers
        /\ lastAnswer' = writeMessage(MessageTypeError, m.method, Error(runErr'))
        /\ UNCHANGED <<enabledCallbacks, requestId, defers, wErr, cur, nCalls, nOps,
                       last>>
        /\ UNCHANGED <<probe, callVars>>

\* Run reads an envelope that is no Request: it returns ErrInvalidRequest.
RunUnexpected(f) ==
    /\ pc = "idle"
    /\ \E m \in {readRequest(Wire(f), <<>>)} :
        /\ m.err = nil
        /\ m.messageType # MessageTypeRequest
        /\ RunReturns(defers, answers, Err("ErrInvalidRequest", <<>>), "unexpected")
        /\ UNCHANGED <<enabledCallbacks, requestId, defers, wErr, cur, nCalls, nOps,
                       last>>
        /\ UNCHANGED <<probe, callVars>>

\* A handleRequest that counts only the requests it hands to api.HandleRequest.
ReadsRequest_ApiOnly(m) ==
    /\ requestId < MaxRequests
    /\ Len(defers) < MaxRequests
    /\ m.err = nil
    /\ m.messageType = MessageTypeRequest
    /\ requestId' = IF m.method \in {str_configure, str_echo}
                    THEN requestId ELSE requestId + 1
    /\ defers' = Append(defers, m.method)
    /\ cur' = [method |-> m.method, payload |-> m.payload]
    /\ nCalls' = 0
    /\ nOps' = 0
    /\ last' = NoLast

\* Run reads a Request: it defers the recover closure, and handleRequest
\* counts the request.
ReadsRequest(m) ==
    /\ requestId < MaxRequests
    /\ m.err = nil
    /\ m.messageType = MessageTypeRequest
    /\ requestId' = requestId + 1
    /\ defers' = Append(defers, m.method)
    /\ cur' = [method |-> m.method, payload |-> m.payload]
    /\ nCalls' = 0
    /\ nOps' = 0
    /\ last' = NoLast

\* A configure request.
RunConfigure(f, failAt) ==
    /\ pc = "idle"
    /\ \E m \in {readRequest(Wire(f), <<>>)} :
        /\ ReadsRequest(m)
        /\ m.method = str_configure
        /\ \E h \in {handleConfigure(enabledCallbacks, m.payload)} :
               /\ enabledCallbacks' = h.enabled
               /\ IF h.panic # nil
                  THEN RunPanics(Append(defers, m.method), Append(answers, 0),
                                 Writer(wErr, failAt), h.panic)
                  ELSE RunAnswers(Append(defers, m.method), Append(answers, 0),
                                  Writer(wErr, failAt), m.method, <<>>, h.err)
        /\ UNCHANGED <<probe, callVars>>

\* An echo that answers with an empty payload.
RunEcho_Empty(f, failAt) ==
    /\ pc = "idle"
    /\ \E m \in {readRequest(Wire(f), <<>>)} :
        /\ ReadsRequest(m)
        /\ m.method = str_echo
        /\ RunAnswers(Append(defers, m.method), Append(answers, 0),
                      Writer(wErr, failAt), m.method, <<>>, nil)
        /\ UNCHANGED <<enabledCallbacks>>
        /\ UNCHANGED <<probe, callVars>>

\* An echo request.
RunEcho(f, failAt) ==
    /\ pc = "idle"
    /\ \E m \in {readRequest(Wire(f), <<>>)} :
        /\ ReadsRequest(m)
        /\ m.method = str_echo
        /\ RunAnswers(Append(defers, m.method), Append(answers, 0),
                      Writer(wErr, failAt), m.method, m.payload, nil)
        /\ UNCHANGED <<enabledCallbacks>>
        /\ UNCHANGED <<probe, callVars>>

\* A request with any other method: Run enters api.HandleRequest.
RunDispatch(f) ==
    /\ pc = "idle"
    /\ \E m \in {readRequest(Wire(f), <<>>)} :
        /\ ReadsRequest(m)
        /\ m.method # str_configure
        /\ m.method # str_echo
        /\ pc' = "handling"
        /\ answers' = Append(answers, 0)
        /\ ended' = NotEnded
        /\ UNCHANGED <<enabledCallbacks, wErr, lastAnswer, runErr>>
        /\ UNCHANGED <<probe, callVars>>

(***************************************************************************)
(* api.HandleRequest, the handler table behind every other method: it      *)
(* invokes adapter methods of the host bridge, and returns a result or an  *)
(* error, or panics.                                                       *)
(***************************************************************************)
Summary(op, o) ==
    [op |-> op, called |-> o.called, sent |-> o.sent, read |-> o.read,
     callErr |-> o.callErr, panic |-> o.panic, usedLocal |-> o.usedLocal,
     value |-> o.value]

\* The frames the pump's handler is answered with: per operation an empty
\* reply, a reply with data, a CallError, an envelope of another kind, a
\* reply to another method, a reply cut short, and the end of the input.
PumpFrames(op) ==
    LET m == MethodOf(op)
    IN  {Frame(MessageTypeCallResponse, m, <<>>, "none"),
         Frame(MessageTypeCallResponse, m, str_null, "none"),
         Frame(MessageTypeCallError, m, PeerText, "none"),
         Frame(MessageTypeResponse, m, str_true, "none"),
         Frame(MessageTypeCallResponse, OtherMethod(m), str_true, "none"),
         Frame(MessageTypeCallResponse, m, str_true, "truncated"),
         Frame(MessageTypeCallResponse, m, str_true, "eof")}

\* What an invocation of an adapter method may leave behind: the peer sends
\* any of the frames, the transport breaks at any write or at none, and the
\* argument map of a Resolve method is marshalled in any of the orders it may
\* be traversed in.  Run keeps of an invocation its summary, the Call
\* envelopes it wrote, counted, and the writer it left.
Invocations(op, enabled, arg, local, err) ==
    UNION {UNION {UNION {{[last |-> Summary(op, o), calls |-> Len(o.out),
                           w |-> o.w] :
                              o \in {Adapter(op, enabled, arg, Writer(err, failAt),
                                             r, local, order)}} :
                             order \in Orders(op, enabled)} :
                      failAt \in 0..2} :
               r \in {Wire(f) : f \in PumpFrames(op)}}

\* An adapter method reads the registry through CallbackEnabled with its own
\* bit and nowhere else: the registry matters to it as far as this bit goes.
Own(op, enabled) == IF HasBit(enabled, BitOf(op)) THEN BitOf(op) ELSE 0

\* Invocations of every invocation the handler can make, worked out once.
Invoked ==
    <<>> @@ [key \in UNION {{<<op, own, arg, local, err>> :
                                 own \in {0, BitOf(op)}, arg \in Args(op),
                                 local \in Locals(op), err \in BOOLEAN} :
                                    op \in Ops} |->
                Invocations(key[1], key[2], key[3], key[4], key[5])]

\* The handler invokes an adapter method; a panic of the adapter unwinds
\* through the handler into Run.
HandlerInvokes(op, arg, local) ==
    /\ pc = "handling"
    /\ nOps < MaxCalls
    /\ \E k \in Invoked[<<op, Own(op, enabledCallbacks), arg, local, wErr>>] :
        /\ nOps' = nOps + 1
        /\ nCalls' = nCalls + k.calls
        /\ last' = k.last
        /\ IF k.last.panic # nil
           THEN RunPanics(defers, answers, k.w, k.last.panic)
           ELSE /\ wErr' = k.w.err
                /\ UNCHANGED <<pc, runErr, ended, answers, lastAnswer>>
        /\ UNCHANGED <<enabledCallbacks, requestId, defers, cur>>
        /\ UNCHANGED <<probe, callVars>>

\* The handler returns.
HandlerReturns(result, err, failAt) ==
    /\ pc = "handling"
    /\ RunAnswers(defers, answers, Writer(wErr, failAt), cur.method, result, err)
    /\ UNCHANGED <<enabledCallbacks, requestId, defers, cur, nCalls, nOps, last>>
    /\ UNCHANGED <<probe, callVars>>

\* The handler panics on its own.
HandlerPanics(failAt) ==
    /\ pc = "handling"
    /\ RunPanics(defers, answers, Writer(wErr, failAt), Err("handler", <<>>))
    /\ UNCHANGED <<enabledCallbacks, requestId, defers, cur, nCalls, nOps, last>>
    /\ UNCHANGED <<probe, callVars>>

Next ==
    \/ \E f \in TopFrames : RunReadError(f)
    \/ \E f \in TopFrames : RunUnexpected(f)
    \/ \E f \in TopFrames, failAt \in 0..1 : RunConfigure(f, failAt)
    \/ \E f \in TopFrames, failAt \in 0..1 : RunEcho(f, failAt)
    \/ \E f \in TopFrames : RunDispatch(f)
    \/ \E op \in Ops : \E arg \in Args(op), local \in Locals(op) :
           HandlerInvokes(op, arg, local)
    \/ \E failAt \in 0..1 :
           \/ HandlerReturns(HandlerResult, nil, failAt)
           \/ HandlerReturns(<<>>, Err("handler", <<>>), failAt)
    \/ \E failAt \in 0..1 : HandlerPanics(failAt)

Spec == Init /\ [][Next]_vars

(***************************************************************************)
(* The adapter methods on their own: every operation on every registry,    *)
(* argument, reply of the peer, local answer and state of the writer.  One *)
(* goroutine invokes the method and goes through Server.call step by step; *)
(* goroutines that call together are the matter of the next section.       *)
(***************************************************************************)
\* The registries an adapter method is tried on: none enabled, one, all.
ProbeMasks == {0, 511} \cup CallbackBits

\* A mutex that lets every goroutine through.
Lock_Open(mu) == TRUE

\* callbackMu.Lock goes on when no goroutine holds the mutex.
Lock(mu) == mu = 0

\* The goroutine of the handler that invokes the adapter method: it is none
\* of the concurrent callers.
Prober == NumCallers + 1

\* What the adapter method of operation op hands to Server.call as payload.
Argument(op, arg, order) ==
    CASE op = "ResolveModuleName" ->
             MarshalResolve(str_moduleNameKey, arg, PathA, order)
      [] op = "ResolveTypeReferenceDirective" ->
             MarshalResolve(str_typeRefKey, arg, PathA, order)
      [] OTHER -> MarshalString(arg)

\* The method is at "invoke" before it tests its bit, at "lock" before
\* callbackMu.Lock, at "write" before writeMessage, at "await" in readRequest,
\* at "unlock" before the deferred Unlock, at "returned" when Server.call has
\* returned or was not called, and at "done" when the method has returned.
\* w is the writer, and sent, read, reply and callErr tell how far Server.call
\* got.
InitBridge ==
    /\ InitRun
    /\ probe \in UNION {{[phase |-> "invoke", op |-> op, arg |-> arg,
                          enabled |-> enabled, frame |-> f, local |-> local,
                          wErr |-> we, failAt |-> failAt, order |-> order,
                          w |-> Writer(we, failAt), sent |-> FALSE,
                          read |-> FALSE, reply |-> <<>>, callErr |-> nil] :
                            arg \in Args(op),
                            f \in ReplyFrames(op), local \in Locals(op),
                            we \in BOOLEAN, failAt \in 0..1,
                            order \in Orders(op, enabled)} :
                                op \in Ops, enabled \in ProbeMasks}

\* The adapter method probe.op is invoked: it tests its bit (ReadFile, the
\* path too) and goes into Server.call or past it.
Invoke ==
    /\ probe.phase = "invoke"
    /\ \E o \in {Adapter(probe.op, probe.enabled, probe.arg, probe.w, <<>>,
                          probe.local, probe.order)} :
           probe' = [probe EXCEPT !.phase = IF o.called THEN "lock" ELSE "returned"]
    /\ UNCHANGED <<pumpVars, callVars>>

\* s.callbackMu.Lock(): the method waits while another goroutine is in call.
InvokeLock ==
    /\ probe.phase = "lock"
    /\ Lock(callbackMu)
    /\ callbackMu' = Prober
    /\ probe' = [probe EXCEPT !.phase = "write"]
    /\ UNCHANGED <<wbuf, flushed, inbox, callers, exchanges>>
    /\ UNCHANGED pumpVars

\* writeMessage(MessageTypeCall, method, jsonPayload): the envelope is flushed
\* to the peer, or the write fails and call returns the error.
InvokeWrite ==
    /\ probe.phase = "write"
    /\ \E sent \in {Put(probe.w,
                         writeMessage(MessageTypeCall, MethodOf(probe.op),
                                      Argument(probe.op, probe.arg, probe.order)))} :
           /\ flushed' = flushed \o sent.out
           /\ probe' = [probe EXCEPT
                            !.phase = IF sent.err # nil THEN "unlock" ELSE "await",
                            !.w = sent.w,
                            !.sent = sent.out # <<>>,
                            !.callErr = sent.err]
    /\ UNCHANGED <<callbackMu, wbuf, inbox, callers, exchanges>>
    /\ UNCHANGED pumpVars

\* readRequest(method) gets what the peer sends, and call makes its result
\* of the envelope.
InvokeRead ==
    /\ probe.phase = "await"
    /\ \E got \in {callReply(readRequest(Wire(probe.frame), MethodOf(probe.op)))} :
           probe' = [probe EXCEPT !.phase = "unlock", !.read = TRUE,
                                  !.reply = got.payload, !.callErr = got.err]
    /\ UNCHANGED <<pumpVars, callVars>>

\* The deferred s.callbackMu.Unlock(), and call returns.
InvokeUnlock ==
    /\ probe.phase = "unlock"
    /\ callbackMu' = 0
    /\ probe' = [probe EXCEPT !.phase = "returned"]
    /\ UNCHANGED <<wbuf, flushed, inbox, callers, exchanges>>
    /\ UNCHANGED pumpVars

\* Outside the mutex, the method panics with the error of call, makes its
\* result of the reply or asks the local implementation, and returns.
InvokeReturn ==
    /\ probe.phase = "returned"
    /\ probe' = [phase |-> "done", op |-> probe.op, arg |-> probe.arg,
                 enabled |-> probe.enabled, frame |-> probe.frame,
                 local |-> probe.local, wErr |-> probe.wErr,
                 failAt |-> probe.failAt, order |-> probe.order,
                 w |-> probe.w, sent |-> probe.sent, read |-> probe.read,
                 reply |-> probe.reply, callErr |-> probe.callErr,
                 o |-> Adapter(probe.op, probe.enabled, probe.arg,
                               Writer(probe.wErr, probe.failAt), Wire(probe.frame),
                               probe.local, probe.order)]
    /\ UNCHANGED <<pumpVars, callVars>>

NextBridge ==
    \/ Invoke
    \/ InvokeLock
    \/ InvokeWrite
    \/ InvokeRead
    \/ InvokeUnlock
    \/ InvokeReturn

SpecBridge == InitBridge /\ [][NextBridge]_vars

\* What the method returned with is what Server.call did step by step: the
\* envelope on the wire, the reply and the error it read, the writer it left,
\* and the mutex free again.
AsStepped ==
    /\ probe.o.sent = probe.sent
    /\ probe.o.read = probe.read
    /\ probe.o.reply = probe.reply
    /\ probe.o.callErr = probe.callErr
    /\ probe.o.w = probe.w
    /\ probe.o.out = flushed
    /\ callbackMu = 0

\* Every method returns as it stepped, and calls exactly when its bit is set
\* (ReadFile: and the path is not under bundled://).
StepsAgree ==
    probe.phase = "done" =>
        /\ AsStepped
        /\ probe.o.called <=>
               /\ HasBit(probe.enabled, BitOf(probe.op))
               /\ ~(probe.op = "ReadFile" /\ HasPrefix(probe.arg, str_bundled))

\* The mutex is held while the method is inside call, and is free otherwise.
MutexMatchesCall ==
    IF probe.phase \in {"write", "await", "unlock"}
    THEN callbackMu = Prober
    ELSE callbackMu = 0

\* An adapter method does on a registry what it does on the registry cut down
\* to its own bit.
OwnBitDecides ==
    probe.phase = "invoke" =>
        Adapter(probe.op, probe.enabled, probe.arg,
                Writer(probe.wErr, probe.failAt), Wire(probe.frame),
                probe.local, probe.order)
        = Adapter(probe.op, Own(probe.op, probe.enabled), probe.arg,
                  Writer(probe.wErr, probe.failAt), Wire(probe.frame),
                  probe.local, probe.order)


(***************************************************************************)
(* Server.call under concurrency: while a request is handled, goroutines   *)
(* of the handler call the peer through the one connection.  A caller is   *)
(* at "lock" before callbackMu.Lock, at "header" before writeMessage, at   *)
(* "payload" before the second writeBin and the Flush, at "read" before    *)
(* readRequest and at "unlock" before the deferred Unlock.                 *)
(***************************************************************************)
\* The state in which the handler of request "X" runs: the peer configured
\* every callback and sent the request.
InitCall ==
    /\ pc = "handling"
    /\ enabledCallbacks = 511
    /\ requestId = 2
    /\ defers = <<str_configure, str_X>>
    /\ wErr = FALSE
    /\ cur = [method |-> str_X, payload |-> <<>>]
    /\ answers = <<1, 0>>
    /\ lastAnswer = writeMessage(MessageTypeResponse, str_configure, <<>>)
    /\ nCalls = 0
    /\ nOps = 0
    /\ last = NoLast
    /\ runErr = nil
    /\ ended = NotEnded
    /\ probe = NoProbe
    /\ callbackMu = 0
    /\ wbuf = <<>>
    /\ flushed = <<>>
    /\ inbox = <<>>
    /\ callers = [c \in Callers |-> IdleCaller]
    /\ exchanges = 0

\* What the concurrent callers call with.
CallMethods == {str_fileExists, str_readFile}
CallPayloads == {MarshalString(PathA), MarshalString(PathB)}

At(c, where) == callers[c].pc = where
Goes(c, where) == callers' = [callers EXCEPT ![c].pc = where]
Fails(c, err) ==
    callers' = [callers EXCEPT ![c].pc = "unlock", ![c].result = <<>>,
                               ![c].err = err]

\* A goroutine enters call.
CallEnter(c, method, payload) ==
    /\ At(c, "idle")
    /\ exchanges < MaxExchanges
    /\ exchanges' = exchanges + 1
    /\ callers' = [callers EXCEPT ![c] = [pc |-> "lock", method |-> method,
                                          payload |-> payload, result |-> <<>>,
                                          err |-> nil]]
    /\ UNCHANGED <<callbackMu, wbuf, flushed, inbox>>
    /\ UNCHANGED <<pumpVars, probe>>

\* s.callbackMu.Lock().
CallLock(c) ==
    /\ At(c, "lock")
    /\ Lock(callbackMu)
    /\ callbackMu' = c
    /\ Goes(c, "header")
    /\ UNCHANGED <<wbuf, flushed, inbox, exchanges>>
    /\ UNCHANGED <<pumpVars, probe>>

\* writeMessage up to the method: the bytes go into the buffer of s.w.
CallWriteHeader(c) ==
    /\ At(c, "header")
    /\ IF wErr
       THEN /\ Fails(c, Err("io", <<>>))
            /\ wbuf' = wbuf
       ELSE /\ Goes(c, "payload")
            /\ wbuf' = wbuf \o writeHeader(MessageTypeCall, callers[c].method)
    /\ UNCHANGED <<callbackMu, flushed, inbox, exchanges>>
    /\ UNCHANGED <<pumpVars, probe>>

\* writeMessage from the payload on: the Flush hands the buffer to the peer,
\* or fails and leaves the error in s.w.
CallWritePayload(c, fail) ==
    /\ At(c, "payload")
    /\ IF wErr \/ fail
       THEN /\ Fails(c, Err("io", <<>>))
            /\ wErr' = TRUE
            /\ wbuf' = IF wErr THEN wbuf ELSE wbuf \o writeBin(callers[c].payload)
            /\ flushed' = flushed
       ELSE /\ Goes(c, "read")
            /\ wErr' = wErr
            /\ wbuf' = <<>>
            /\ flushed' = Append(flushed, wbuf \o writeBin(callers[c].payload))
    /\ UNCHANGED <<callbackMu, inbox, exchanges>>
    /\ UNCHANGED <<pc, enabledCallbacks, requestId, defers, cur, answers, lastAnswer,
                   nCalls, nOps, last, runErr, ended, probe>>

\* The peer reads the oldest flush.  It answers a Call envelope in kind
\* messageType with the method and the payload of the Call, and nothing else.
PeerReplies(messageType) ==
    /\ flushed # <<>>
    /\ flushed' = Tail(flushed)
    /\ \E m \in {readRequest(Head(flushed), <<>>)} :
           inbox' = IF m.err = nil /\ m.messageType = MessageTypeCall /\ m.rest = <<>>
                    THEN inbox \o writeMessage(messageType, m.method, m.payload)
                    ELSE inbox
    /\ UNCHANGED <<callbackMu, wbuf, callers, exchanges>>
    /\ UNCHANGED <<pumpVars, probe>>

\* readRequest(method) and what call makes of the envelope.
CallRead(c) ==
    /\ At(c, "read")
    /\ inbox # <<>>
    /\ \E m \in {readRequest(inbox, callers[c].method)} :
           /\ inbox' = m.rest
           /\ \E got \in {callReply(m)} :
                  callers' = [callers EXCEPT ![c].pc = "unlock",
                                             ![c].result = got.payload,
                                             ![c].err = got.err]
    /\ UNCHANGED <<callbackMu, wbuf, flushed, exchanges>>
    /\ UNCHANGED <<pumpVars, probe>>

\* A deferred Unlock that is skipped when call returns an error.
CallUnlock_OnSuccess(c) ==
    /\ At(c, "unlock")
    /\ callbackMu' = IF callers[c].err = nil THEN 0 ELSE callbackMu
    /\ Goes(c, "idle")
    /\ UNCHANGED <<wbuf, flushed, inbox, exchanges>>
    /\ UNCHANGED <<pumpVars, probe>>

\* The deferred s.callbackMu.Unlock(), and call returns.
CallUnlock(c) ==
    /\ At(c, "unlock")
    /\ callbackMu' = 0
    /\ Goes(c, "idle")
    /\ UNCHANGED <<wbuf, flushed, inbox, exchanges>>
    /\ UNCHANGED <<pumpVars, probe>>

NextCall ==
    \/ \E c \in Callers, method \in CallMethods, payload \in CallPayloads :
           CallEnter(c, method, payload)
    \/ \E c \in Callers : CallLock(c)
    \/ \E c \in Callers : CallWriteHeader(c)
    \/ \E c \in Callers, fail \in BOOLEAN : CallWritePayload(c, fail)
    \/ \E messageType \in {MessageTypeCallResponse, MessageTypeCallError} :
           PeerReplies(messageType)
    \/ \E c \in Callers : CallRead(c)
    \/ \E c \in Callers : CallUnlock(c)

SpecCall == InitCall /\ [][NextCall]_vars


(***************************************************************************)
(* Properties of Server.Run.                                               *)
(***************************************************************************)
\* The handling of the request read last panicked.
Panicked == ended.how \in {"recovered", "crashed"}

\* C1: when the handling of a request panics and the writer works, Run has
\* written the Error envelope for that request and is idle again, ready to
\* read the next request.
C1_PanicKeepsServing ==
    (Panicked /\ ~wErr) =>
        /\ answers[requestId] = 1
        /\ lastAnswer = writeMessage(MessageTypeError, cur.method,
                                     Error(panicError(ended.err)))
        /\ pc = "idle"

\* C2: Run reads the next top-level envelope only when every request read so
\* far has its Response or Error envelope: an unanswered request is the one
\* read last, and Run is not idle while there is one.
C2_OneRequestAtATime ==
    /\ Len(answers) = requestId
    /\ \A i \in 1..requestId : answers[i] = 0 => i = requestId /\ pc # "idle"
    /\ pc = "handling" => answers[requestId] = 0

\* A second request is being handled, the first one answered.
C2_Witness ==
    /\ pc = "handling"
    /\ requestId = 2
    /\ answers = <<1, 0>>


\* C5: a bit of enabledCallbacks that is set stays set, whatever request Run
\* handles; and on every registry Run reaches, enabling a name keeps every
\* bit that was set, and enabling it a second time changes nothing.
C5_BitsAreMonotonic ==
    /\ [][\A bit \in CallbackBits :
              HasBit(enabledCallbacks, bit) => HasBit(enabledCallbacks', bit)]_vars
    /\ [](\A name \in {str_fileExists, str_readFile, str_realpath, str_bogus} :
              \E once \in {enableCallback(enabledCallbacks, name).enabled} :
                  /\ \A bit \in CallbackBits :
                         HasBit(enabledCallbacks, bit) => HasBit(once, bit)
                  /\ enableCallback(once, name).enabled = once)

\* readFile was enabled, then fileExists, and then a configure request failed
\* on an unknown name: both are enabled.
C5_Witness ==
    /\ requestId = 3
    /\ cur.method = str_configure
    /\ ended.err.class = "unknownCallback"
    /\ enabledCallbacks = CallbackFileExists + CallbackReadFile

\* C6: a configure request that fails on an unknown callback name leaves
\* enabledCallbacks as it was before the request.
C6_UnknownNameEnablesNothing ==
    [][(/\ requestId' = requestId + 1
        /\ cur'.method = str_configure
        /\ ended'.err.class = "unknownCallback")
       => enabledCallbacks' = enabledCallbacks]_vars

\* The call made by the adapter invoked last failed.
CallFailed == last.callErr # nil

\* The adapter invoked last did not return, did not consult the local
\* implementation, and no invocation wrote more than one Call envelope.
CallFailureIsFatal ==
    /\ last.panic = last.callErr
    /\ ~last.usedLocal
    /\ nCalls <= nOps
    /\ pc \in {"returned", "crashed"}
    /\ Panicked

\* The request read last has the Error envelope with the call's error, and
\* no other answer.
EndedWithErrorEnvelope ==
    /\ answers[requestId] = 1
    /\ lastAnswer = writeMessage(MessageTypeError, cur.method,
                                 Error(panicError(last.callErr)))

\* C10 as stated: a failed call is fatal to the adapter's invocation and the
\* request ends with an Error envelope.
C10_FailedCallEndsInErrorEnvelope ==
    CallFailed => CallFailureIsFatal /\ EndedWithErrorEnvelope

\* C10, amended: a failed call is fatal to the adapter's invocation and the
\* request gets no Response; it gets the Error envelope when the writer
\* works, and no answer at all, Run panicking, when the writer has failed.
C10_FailedCallIsFatal ==
    CallFailed =>
        /\ CallFailureIsFatal
        /\ IF wErr
           THEN answers[requestId] = 0 /\ pc = "crashed"
           ELSE EndedWithErrorEnvelope /\ pc = "returned"

\* The peer answered the Call with a CallError and the request got its
\* Error envelope.
C10_Witness ==
    /\ CallFailed
    /\ last.callErr.class = "ErrClientError"
    /\ last.sent
    /\ answers[requestId] = 1


(***************************************************************************)
(* Properties of the call client and of the host bridge.                   *)
(***************************************************************************)
\* The adapter method of the probe ran, with its capability enabled, wrote
\* the Call envelope and read the peer's frame.
Called ==
    /\ probe.phase = "done"
    /\ HasBit(probe.enabled, BitOf(probe.op))
    /\ probe.o.read

\* The peer's frame is a whole envelope of type t for the method called.
Matching(t) ==
    /\ probe.frame.damage = "none"
    /\ probe.frame.method = MethodOf(probe.op)
    /\ probe.frame.messageType = t

\* C3: call returns the payload exactly when the envelope it reads is a
\* CallResponse for its method, fails with the client error carrying the
\* peer's text when it is a CallError for its method, and fails with a
\* framing or transport error on anything else.
C3_CallCompletesOnMatchingReply ==
    Called =>
        /\ AsStepped
        /\ probe.sent /\ probe.read
        /\ Matching(MessageTypeCallResponse) =>
               probe.callErr = nil /\ probe.reply = probe.frame.payload
        /\ Matching(MessageTypeCallError) =>
               probe.callErr = Err("ErrClientError", probe.frame.payload)
        /\ (~Matching(MessageTypeCallResponse) /\ ~Matching(MessageTypeCallError)) =>
               /\ probe.callErr.class \in TransportClasses \cup {"ErrInvalidRequest"}
               /\ probe.reply = <<>>
               /\ probe.o.panic = probe.callErr

\* A call that read a Request envelope for its own method failed.
C3_Witness ==
    /\ Called
    /\ probe.frame.damage = "none"
    /\ probe.frame.method = MethodOf(probe.op)
    /\ probe.frame.messageType = MessageTypeRequest
    /\ probe.read
    /\ probe.callErr.class = "ErrInvalidRequest"

\* C7: an adapter method whose call returned a reply consults the local
\* implementation only when the reply is empty.
C7_OnlyEmptyReplyFallsBack ==
    (Called /\ probe.o.callErr = nil /\ probe.o.usedLocal) => probe.o.reply = <<>>

\* C8: FileExists with the capability disabled writes no Call and returns
\* the local answer; enabled and answered "true" it returns true without the
\* local filesystem; enabled and answered with an empty payload it returns
\* the local answer.
C8_FileExists ==
    (probe.phase = "done" /\ probe.op = "FileExists") =>
        /\ AsStepped
        /\ ~HasBit(probe.enabled, CallbackFileExists) =>
               /\ ~probe.o.called
               /\ ~probe.sent
               /\ flushed = <<>>
               /\ probe.o.usedLocal
               /\ probe.o.panic = nil
               /\ probe.o.value = probe.local
        /\ (Called /\ probe.callErr = nil /\ probe.reply = str_true) =>
               /\ ~probe.o.usedLocal
               /\ probe.o.panic = nil
               /\ probe.o.value = Bool(TRUE)
        /\ (Called /\ probe.callErr = nil /\ probe.reply = <<>>) =>
               /\ probe.o.usedLocal
               /\ probe.o.panic = nil
               /\ probe.o.value = probe.local

\* FileExists, enabled, got an empty reply and returned the local answer true.
C8_Witness ==
    /\ Called
    /\ probe.op = "FileExists"
    /\ probe.read
    /\ probe.callErr = nil
    /\ probe.reply = <<>>
    /\ probe.local = Bool(TRUE)
    /\ probe.o.value = Bool(TRUE)

\* C9: a resolver method whose call returned a reply returns what it parsed
\* from a non-empty reply without the local resolver, and returns the local
\* resolver's result on an empty reply.
C9_ResolverReplyOrLocal ==
    (Called /\ probe.op \in ResolverOps /\ probe.o.callErr = nil) =>
        /\ (probe.o.reply # <<>> /\ probe.o.panic = nil) =>
               ~probe.o.usedLocal /\ probe.o.value # probe.local
        /\ probe.o.reply = <<>> =>
               probe.o.usedLocal /\ probe.o.value = probe.local

(***************************************************************************)
(* Properties of concurrent calls.                                         *)
(***************************************************************************)
\* Caller c is between its Lock and its Unlock.
InCall(c) == callers[c].pc \in {"header", "payload", "read", "unlock"}

\* C4: the cycles of two callers do not overlap: every flush is the whole
\* Call envelope of the caller waiting for its reply, no two callers are
\* inside the cycle together, and a caller that read a reply read the reply
\* to its own Call.
C4_CallCycleIsAtomic ==
    /\ \A i \in 1..Len(flushed) :
           \E c \in Callers :
               /\ At(c, "read")
               /\ flushed[i] = writeMessage(MessageTypeCall, callers[c].method,
                                            callers[c].payload)
    /\ \A c, d \in Callers : (c # d /\ InCall(c)) => ~InCall(d)
    /\ \A c \in Callers :
           At(c, "unlock") =>
               \/ callers[c].err = nil /\ callers[c].result = callers[c].payload
               \/ callers[c].err = Err("ErrClientError", callers[c].payload)
               \/ callers[c].err = Err("io", <<>>) /\ wErr

\* One caller has sent its Call and waits for the reply while the other
\* waits for the mutex.
C4_Witness ==
    /\ \E c, d \in Callers : At(c, "read") /\ At(d, "lock")
    /\ flushed # <<>>


(***************************************************************************)
(* The codec on its own: writeMessage and readRequest on envelopes of      *)
(* every kind with methods and payloads around the lengths where the       *)
(* width of the length changes, and readRequest on byte sequences a peer   *)
(* may send, whole or damaged.                                             *)
(***************************************************************************)
\* n bytes, no two neighbours alike.
Fill(n, seed) == [i \in 1..n |-> (i + seed) % 256]

\* The lengths of method and payload the envelopes are built with.
EnvelopeLengths ==
    ({0, 4, 255, 256} \X {0, 1, 255, 256, 65535, 65536})
        \cup ({65535, 65536} \X {0, 256})

\* A bin-string as a peer may encode it: any of the three tags, whatever
\* the length.
PeerBin(tag, payload) ==
    <<tag>> \o PutBigEndian(Len(payload), SizeWidth(tag)) \o payload

PeerEnvelope(messageType, methodTag, method, payloadTag, payload) ==
    <<MessagePackTypeFixedArray3, MessagePackTypeU8, messageType>>
        \o PeerBin(methodTag, method) \o PeerBin(payloadTag, payload)

\* bytes with the i-th byte replaced by b.
Damaged(bytes, i, b) == [bytes EXCEPT ![i] = b]

BinTags == {MessagePackTypeBin8, MessagePackTypeBin16, MessagePackTypeBin32}

\* The byte sequences readRequest is tried on, each with what is wrong with
\* it: nothing ("none"), the array marker, the tag of the kind, the kind,
\* the tag of the method or of the payload, or the end of the input before
\* the end of the envelope ("short").
CodecBytes ==
    LET whole == PeerEnvelope(MessageTypeRequest, MessagePackTypeBin8, str_echo,
                              MessagePackTypeBin8, PayloadHello)
        payloadAt == 6 + Len(str_echo)
    IN  {[bytes |-> PeerEnvelope(t, mt, m, pt, p), damage |-> "none"] :
             t \in {MessageTypeRequest, MessageTypeCall}, mt \in BinTags,
             m \in {str_echo, <<>>}, pt \in BinTags,
             p \in {PayloadHello, <<>>, Fill(255, 1)}}
        \cup {[bytes |-> PeerEnvelope(MessageTypeResponse, MessagePackTypeBin8,
                                      str_echo, pt, Fill(n, 1)),
               damage |-> "none"] :
                  pt \in {MessagePackTypeBin16, MessagePackTypeBin32},
                  n \in {256, 65536}}
        \cup {[bytes |-> Damaged(whole, 1, b), damage |-> "marker"] :
                  b \in {0, 146, 148, 204}}
        \cup {[bytes |-> Damaged(whole, 2, b), damage |-> "kindTag"] :
                  b \in {0, 147, 203, 205}}
        \cup {[bytes |-> Damaged(whole, 3, b), damage |-> "kind"] :
                  b \in {0, 7, 8, 255}}
        \cup {[bytes |-> Damaged(whole, 4, b), damage |-> "methodTag"] :
                  b \in {0, 195, 199, 204}}
        \cup {[bytes |-> Damaged(whole, payloadAt, b), damage |-> "payloadTag"] :
                  b \in {0, 195, 199, 204}}
        \cup {[bytes |-> SubSeq(PeerEnvelope(MessageTypeRequest, mt, str_echo, pt,
                                             PayloadHello), 1, n),
               damage |-> "short"] :
                  mt \in BinTags, pt \in BinTags, n \in 1..14}

NoRead == ReadFail(MessageTypeUnknown, <<>>, nil, <<>>)

Trial(phase, messageType, method, payload, bytes, damage, got, out) ==
    [phase |-> phase, messageType |-> messageType, method |-> method,
     payload |-> payload, bytes |-> bytes, damage |-> damage, got |-> got,
     out |-> out]

InitCodec ==
    /\ InitRun
    /\ \/ \E t \in MessageTypeRequest..MessageTypeCall, n \in EnvelopeLengths :
              probe = Trial("envelope", t, Fill(n[1], t), Fill(n[2], 2 * t), <<>>,
                            "none", NoRead, <<>>)
       \/ \E b \in CodecBytes :
              probe = Trial("bytes", MessageTypeUnknown, <<>>, <<>>, b.bytes,
                            b.damage, NoRead, <<>>)

\* writeMessage writes the envelope and readRequest reads what it wrote.
WriteRead ==
    /\ probe.phase = "envelope"
    /\ \E bytes \in {writeMessage(probe.messageType, probe.method, probe.payload)} :
           probe' = [probe EXCEPT !.phase = "written", !.bytes = bytes,
                                  !.got = readRequest(bytes, <<>>)]
    /\ UNCHANGED <<pumpVars, callVars>>

\* readRequest reads the bytes and writeMessage writes the envelope it read.
ReadWrite ==
    /\ probe.phase = "bytes"
    /\ \E got \in {readRequest(probe.bytes, <<>>)} :
           probe' = [probe EXCEPT
                         !.phase = "read",
                         !.got = got,
                         !.out = IF got.err = nil
                                 THEN writeMessage(got.messageType, got.method,
                                                   got.payload)
                                 ELSE <<>>]
    /\ UNCHANGED <<pumpVars, callVars>>

NextCodec == WriteRead \/ ReadWrite

SpecCodec == InitCodec /\ [][NextCodec]_vars

(***************************************************************************)
(* Properties of the codec.                                                *)
(***************************************************************************)
\* C11: readRequest reads from the bytes writeMessage wrote the kind, the
\* method and the payload of the envelope, and leaves no byte.
C11_RoundTrip ==
    probe.phase = "written" =>
        /\ probe.got.err = nil
        /\ probe.got.messageType = probe.messageType
        /\ probe.got.method = probe.method
        /\ probe.got.payload = probe.payload
        /\ probe.got.rest = <<>>

\* A method of 255 bytes and a payload of 256 bytes made the round trip, the
\* one behind a length of one byte and the other behind a length of two.
C11_Witness ==
    /\ probe.phase = "written"
    /\ Len(probe.method) = 255
    /\ Len(probe.payload) = 256
    /\ probe.bytes[4] = MessagePackTypeBin8
    /\ probe.bytes[Len(probe.method) + 6] = MessagePackTypeBin16
    /\ Len(probe.got.payload) = 256

\* C12: when readRequest reads a byte sequence as one envelope, writeMessage
\* writes from what it read the same byte sequence.
C12_ReadThenWriteIsIdentity ==
    (probe.phase = "read" /\ probe.got.err = nil /\ probe.got.rest = <<>>) =>
        probe.out = probe.bytes

\* C20: readRequest fails and returns no payload on a wrong array marker, a
\* wrong tag of the kind, a kind outside 1..6, a wrong tag of a bin-string
\* (each an invalid request), and on an input that ends before the envelope
\* does (an end-of-file error).
C20_MalformedIsRejected ==
    (probe.phase = "read" /\ probe.damage # "none") =>
        /\ probe.got.err # nil
        /\ probe.got.payload = <<>>
        /\ probe.out = <<>>
        /\ probe.got.err.class =
               IF probe.damage = "short"
               THEN (IF probe.got.err.class = "EOF" THEN "EOF" ELSE "ErrUnexpectedEOF")
               ELSE "ErrInvalidRequest"

\* An envelope cut inside its payload was refused as a short read.
C20_Witness ==
    /\ probe.phase = "read"
    /\ probe.damage = "short"
    /\ Len(probe.bytes) = 14
    /\ probe.got.err.class = "ErrUnexpectedEOF"


(***************************************************************************)
(* Further properties of Server.Run.                                       *)
(***************************************************************************)
\* The step reads a request with the given method.
Reads(method) == requestId' = requestId + 1 /\ cur'.method = method

\* C13: a configure request answered with a Response leaves set the bits
\* that were set and the bits of the names it lists, and no other; and an
\* adapter method whose bit is not set writes no Call envelope and returns
\* an answer of the local implementation.
C13_ConfigureEnablesTheNamedBits ==
    [][/\ (Reads(str_configure) /\ ended'.how = "response") =>
              \A bit \in CallbackBits :
                  HasBit(enabledCallbacks', bit) <=>
                      \/ HasBit(enabledCallbacks, bit)
                      \/ \E i \in 1..Len(Callbacks(cur'.payload)) :
                             CallbackOf(Callbacks(cur'.payload)[i]) = bit
       /\ (nOps' = nOps + 1 /\ ~HasBit(enabledCallbacks, BitOf(last'.op))) =>
              /\ ~last'.called
              /\ ~last'.sent
              /\ nCalls' = nCalls
              /\ last'.panic = nil
              /\ last'.usedLocal
              /\ last'.value \in Locals(last'.op)
              /\ pc' = "handling"]_vars

\* Only readFile is enabled, and DirectoryExists returned the local answer
\* without a Call.
C13_Witness ==
    /\ enabledCallbacks = CallbackReadFile
    /\ last.op = "DirectoryExists"
    /\ ~last.sent
    /\ nCalls = 0
    /\ last.usedLocal
    /\ last.value = Bool(TRUE)


(***************************************************************************)
(* Further properties of the host bridge.                                  *)
(***************************************************************************)
\* C14: ReadFile whose call returned the reply null returns "" and not
\* found without the local filesystem; on an empty reply, and with the
\* capability disabled, it returns what the local filesystem's ReadFile
\* returns.
C14_ReadFileNull ==
    (probe.phase = "done" /\ probe.op = "ReadFile") =>
        /\ AsStepped
        /\ (Called /\ probe.callErr = nil /\ probe.reply = str_null) =>
               /\ probe.o.panic = nil
               /\ ~probe.o.usedLocal
               /\ probe.o.value = File(<<>>, FALSE)
        /\ (Called /\ probe.callErr = nil /\ probe.reply = <<>>) =>
               /\ probe.o.panic = nil
               /\ probe.o.usedLocal
               /\ probe.o.value = probe.local
        /\ ~HasBit(probe.enabled, CallbackReadFile) =>
               /\ ~probe.o.called
               /\ ~probe.sent
               /\ flushed = <<>>
               /\ probe.o.panic = nil
               /\ probe.o.usedLocal
               /\ probe.o.value = probe.local

\* ReadFile got the reply null while the local filesystem has the file, and
\* returned not found.
C14_Witness ==
    /\ Called
    /\ probe.op = "ReadFile"
    /\ probe.read
    /\ probe.callErr = nil
    /\ probe.reply = str_null
    /\ probe.local = File(PayloadHello, TRUE)
    /\ probe.o.value = File(<<>>, FALSE)
    /\ ~probe.o.usedLocal


\* C15: a configure request that fails on an unknown name is answered with
\* the Error envelope carrying the error, and Run is idle again and has not
\* returned; the echo request read next is answered with its Response.
C15_ConfigurationErrorKeepsServing ==
    [][/\ (Reads(str_configure) /\ ended'.err.class = "unknownCallback") =>
              /\ answers'[requestId'] = 1
              /\ lastAnswer' = writeMessage(MessageTypeError, str_configure,
                                            Error(ended'.err))
              /\ pc' = "idle"
              /\ runErr' = nil
       /\ (ended.err.class = "unknownCallback" /\ Reads(str_echo) /\ ~wErr') =>
              /\ answers'[requestId'] = 1
              /\ lastAnswer' = writeMessage(MessageTypeResponse, str_echo,
                                            cur'.payload)
              /\ pc' = "idle"]_vars

\* The second request, a configure request naming an unknown callback, got
\* its Error envelope, and Run is idle with a request still to read.
C15_Witness ==
    /\ requestId = 2
    /\ cur.method = str_configure
    /\ ended.err = Err("unknownCallback", str_bogus)
    /\ answers = <<1, 1>>
    /\ pc = "idle"


\* The envelope read for a Call of the handler was malformed, of another
\* kind or for another method, or the input ended.
FramingErrorInCall ==
    /\ last.read
    /\ last.callErr # nil
    /\ last.callErr.class \in {"EOF", "ErrUnexpectedEOF", "ErrInvalidRequest"}

\* C16: after a framing error, read while idle or while a Call of the
\* handler awaits its reply, Run has returned a non-nil error.
C16_FramingErrorIsFatal ==
    (ended.how = "readError" \/ FramingErrorInCall) =>
        (pc = "returned" /\ runErr # nil)


\* C17: when Run, idle, reads a well-formed envelope that is no Request, it
\* returns ErrInvalidRequest; no handler or adapter is invoked, no request is
\* counted, the registry is as it was, and nothing is written.
C17_UnexpectedKindEndsRun ==
    [][(pc = "idle" /\ ended'.how = "unexpected") =>
           /\ pc' = "returned"
           /\ runErr'.class = "ErrInvalidRequest"
           /\ ended'.recovered = 0
           /\ answers' = answers
           /\ lastAnswer' = lastAnswer
           /\ wErr' = wErr
           /\ requestId' = requestId
           /\ nOps' = nOps
           /\ nCalls' = nCalls
           /\ last' = last
           /\ enabledCallbacks' = enabledCallbacks]_vars

\* One request was answered, and then Run read an envelope that is no
\* Request and returned.
C17_Witness ==
    /\ ended.how = "unexpected"
    /\ pc = "returned"
    /\ runErr = Err("ErrInvalidRequest", <<>>)
    /\ requestId = 1
    /\ answers = <<1>>


\* C18: when the Error envelope for a recovered panic cannot be written, the
\* panic of the closure leaves Run, no envelope is written, and the closure
\* of the panicking request is the only one that recovered a panic.
C18_DoubleFaultEndsRecovery ==
    ended.how = "crashed" =>
        /\ pc = "crashed"
        /\ runErr = Err("fatal", <<>>)
        /\ wErr
        /\ ended.recovered = 1


\* C19: an echo request whose answer can be written is answered with exactly
\* one envelope, the Response with method "echo" and the payload of the
\* request; no Call is written, no adapter is invoked, the registry is as it
\* was, and Run is idle again.
C19_EchoAnswersThePayload ==
    [][(Reads(str_echo) /\ ~wErr') =>
           /\ answers' = Append(answers, 1)
           /\ lastAnswer' = writeMessage(MessageTypeResponse, str_echo,
                                         cur'.payload)
           /\ readRequest(lastAnswer', <<>>).payload = cur'.payload
           /\ ended' = [how |-> "response", err |-> nil, recovered |-> 0]
           /\ nCalls' = 0
           /\ nOps' = 0
           /\ enabledCallbacks' = enabledCallbacks
           /\ pc' = "idle"]_vars

\* With callbacks enabled, the request "echo" with payload "hello" was
\* answered with its Response.
C19_Witness ==
    /\ cur = [method |-> str_echo, payload |-> PayloadHello]
    /\ lastAnswer = writeMessage(MessageTypeResponse, str_echo, PayloadHello)
    /\ answers[requestId] = 1
    /\ enabledCallbacks # 0
    /\ pc = "idle"

(***************************************************************************)
(* Server.call under concurrency, every exit path, with fair scheduling.   *)
(* The goroutines and the peer of SpecCall, and besides: a payload that    *)
(* json.Marshal rejects, and a peer that answers in another kind or for    *)
(* another method.  A goroutine that can take its next step takes it; a    *)
(* goroutine blocked in callbackMu.Lock gets the mutex when it is free     *)
(* again and again (sync.Mutex hands a starving waiter the mutex); the     *)
(* peer answers every Call it was sent.                                    *)
(***************************************************************************)
\* json.Marshal fails: call returns the error and has written nothing.
CallMarshalFails(c) ==
    /\ At(c, "header")
    /\ Fails(c, Err("json", <<>>))
    /\ UNCHANGED <<callbackMu, wbuf, flushed, inbox, exchanges>>
    /\ UNCHANGED <<pumpVars, probe>>

\* The peer reads the oldest flush and answers the Call in a kind that is no
\* answer to a Call, or for another method.
PeerMisreplies(messageType, other) ==
    /\ flushed # <<>>
    /\ flushed' = Tail(flushed)
    /\ \E m \in {readRequest(Head(flushed), <<>>)} :
           inbox' = IF m.err = nil /\ m.messageType = MessageTypeCall /\ m.rest = <<>>
                    THEN inbox \o writeMessage(messageType,
                                               IF other THEN OtherMethod(m.method)
                                               ELSE m.method,
                                               m.payload)
                    ELSE inbox
    /\ UNCHANGED <<callbackMu, wbuf, callers, exchanges>>
    /\ UNCHANGED <<pumpVars, probe>>

PeerAnswers ==
    \/ \E messageType \in {MessageTypeCallResponse, MessageTypeCallError} :
           PeerReplies(messageType)
    \/ PeerMisreplies(MessageTypeResponse, FALSE)
    \/ PeerMisreplies(MessageTypeCallResponse, TRUE)

\* Every caller calls "fileExists" with the same path: what the callers call
\* with has no part in who holds the mutex.
NextCallFair ==
    \/ \E c \in Callers : CallEnter(c, str_fileExists, MarshalString(PathA))
    \/ \E c \in Callers : CallLock(c)
    \/ \E c \in Callers : CallWriteHeader(c)
    \/ \E c \in Callers : CallMarshalFails(c)
    \/ \E c \in Callers, fail \in BOOLEAN : CallWritePayload(c, fail)
    \/ PeerAnswers
    \/ \E c \in Callers : CallRead(c)
    \/ \E c \in Callers : CallUnlock(c)

Fairness ==
    /\ \A c \in Callers : SF_vars(CallLock(c))
    /\ \A c \in Callers : WF_vars(CallWriteHeader(c) \/ CallMarshalFails(c))
    /\ \A c \in Callers : WF_vars(\E fail \in BOOLEAN : CallWritePayload(c, fail))
    /\ \A c \in Callers : WF_vars(CallRead(c))
    /\ \A c \in Callers : WF_vars(CallUnlock(c))
    /\ WF_vars(PeerAnswers)

SpecCallFair == InitCall /\ [][NextCallFair]_vars /\ Fairness

\* The call of caller d has failed and d has not unlocked yet.
CallHasFailed(d) == At(d, "unlock") /\ callers[d].err # nil

\* C21: the mutex is held by the one caller inside the cycle and by nobody
\* when no caller is; and when the call of one caller has failed while
\* another waits in Lock, the waiting caller gets the mutex and its own call
\* comes to its end.
C21_LockIsReleasedOnEveryPath ==
    /\ [](\A c \in Callers : (callbackMu = c) <=> InCall(c))
    /\ \A c \in Callers :
           (At(c, "lock") /\ \E d \in Callers : CallHasFailed(d))
               ~> (callbackMu = c /\ At(c, "unlock"))

\* The call of caller 1 was answered for another method and failed; caller 2
\* then got the mutex, and its own call is at its end.
C21_Witness ==
    /\ exchanges = 2
    /\ At(1, "idle")
    /\ callers[1].err = Err("ErrInvalidRequest", <<>>)
    /\ callbackMu = 2
    /\ At(2, "unlock")

(***************************************************************************)
(* Properties of the request counter.                                      *)
(***************************************************************************)
\* C22: s.requestId is 0 before the first request and is the number of
\* Requests read so far, so the i-th Request is handled under id i; a step
\* that reads a Request, whatever its method, adds exactly 1, and no other
\* step, an adapter's Call included, changes it.
C22_RequestIdCountsRequests ==
    /\ [](requestId = Len(defers) /\ requestId = Len(answers))
    /\ [][/\ requestId' \in {requestId, requestId + 1}
          /\ (requestId' = requestId + 1) <=> (defers' # defers)
          /\ (defers' # defers) =>
                 /\ pc = "idle"
                 /\ cur'.method = defers'[requestId']
                 /\ pc' = "handling" => ~(cur'.method \in {str_configure, str_echo})
          /\ (nOps' = nOps + 1 \/ nCalls' > nCalls) => requestId' = requestId]_vars

\* The second request, read after a configure request, is being handled
\* under id 2, and an adapter has written a Call for it.
C22_Witness ==
    /\ requestId = 2
    /\ defers = <<str_configure, str_X>>
    /\ pc = "handling"
    /\ nCalls = 1
    /\ last.sent

\* C23: ReadFile of a path under bundled:// writes no Call, whatever the
\* registry, the peer and the writer: nothing reaches the wire, nothing is
\* read, it returns what s.fs.ReadFile returns and leaves the writer as it
\* was.
C23_BundledIsReadLocally ==
    (/\ probe.phase = "done"
     /\ probe.op = "ReadFile"
     /\ HasPrefix(probe.arg, str_bundled)) =>
        /\ AsStepped
        /\ ~probe.o.called
        /\ ~probe.sent
        /\ ~probe.read
        /\ flushed = <<>>
        /\ probe.o.panic = nil
        /\ probe.o.usedLocal
        /\ probe.o.value = probe.local
        /\ probe.w = Writer(probe.wErr, probe.failAt)

\* With every callback enabled and a working writer, ReadFile of
\* "bundled://b" returned the contents the local file system has.
C23_Witness ==
    /\ probe.phase = "done"
    /\ probe.op = "ReadFile"
    /\ probe.arg = PathB
    /\ probe.enabled = 511
    /\ ~probe.wErr
    /\ flushed = <<>>
    /\ probe.o.usedLocal
    /\ probe.o.value = File(PayloadHello, TRUE)

\* C24: no request has more than one Response or Error envelope, and a step
\* of Run, the deferred closures it runs included, writes no envelope for a
\* request that has one.
C24_AtMostOneAnswer ==
    /\ [](\A i \in 1..Len(answers) : answers[i] \in {0, 1})
    /\ [][\A i \in 1..Len(answers) : answers[i] = 1 => answers'[i] = 1]_vars

\* The first request was answered; the handling of the second panicked and
\* its Error envelope could not be written; the closure of the first request
\* recovered the second panic, and the first request still has one answer.
C24_Witness ==
    /\ ended.how = "crashed"
    /\ ended.recovered = 2
    /\ requestId = 2
    /\ answers = <<1, 0>>
    /\ wErr

(***************************************************************************)
(* diagnosticMaps.  The ast.Diagnostics of a program are numbered          *)
(* 1..NumDiagnostics, the number standing for the pointer; ast gives for   *)
(* each its message and the diagnostics its MessageChain and its           *)
(* RelatedInformation point to.  A map is the set of its pairs: an entry   *)
(* of diagnosticMapById sits under its Id, a pair of diagnosticReverseMap  *)
(* under its diagnostic.                                                   *)
(***************************************************************************)
Pointers == 1..NumDiagnostics

\* The diagnostics a MessageChain or a RelatedInformation may list.
Children == {<<>>} \cup {<<n>> : n \in Pointers}

\* The programs: every diagnostic with every choice of children, so that a
\* child may be shared, may point back to its parent, and may be itself.
Programs ==
    [Pointers -> {[message |-> <<>>, messageChain |-> mc, relatedInformation |-> ri] :
                      mc \in Children, ri \in Children}]

\* The message of the n-th diagnostic: no two diagnostics have one message.
MessageOf(n) == <<100 + n>>

NoMaps == [diagnosticMapById |-> {}, diagnosticReverseMap |-> {}]

\* d.diagnosticReverseMap[diagnostic], as the set of the pairs found.
Registered(d, diagnostic) ==
    {e \in d.diagnosticReverseMap : e.diagnostic = diagnostic}

\* d.diagnosticMapById[id] = diag.
PutById(byId, diag) == {e \in byId : e.Id # diag.Id} \cup {diag}

\* What one invocation of addDiagnostic comes to: the id returned, the maps,
\* the invocations made, this one included, and the invocations that found
\* their diagnostic registered with the id each returned.
Added(id, d, calls, hits) == [id |-> id, d |-> d, calls |-> calls, hits |-> hits]

RECURSIVE addDiagnostic(_, _, _)
RECURSIVE addEach(_, _, _)

\* An addDiagnostic that numbers a registered diagnostic anew.
addDiagnostic_Renumbers(ast, d, diagnostic) ==
    IF Registered(d, diagnostic) # {}
    THEN Added(Cardinality(d.diagnosticMapById) + 1, d, 1,
               <<[diagnostic |-> diagnostic,
                  id |-> Cardinality(d.diagnosticMapById) + 1]>>)
    ELSE Only({
        Only({
            Only({
                Added(id,
                      [diagnosticMapById |->
                           PutById(ri.d.diagnosticMapById,
                                   [Id |-> id,
                                    Message |-> ast[diagnostic].message,
                                    MessageChain |-> mc.ids,
                                    RelatedInformation |-> ri.ids]),
                       diagnosticReverseMap |-> ri.d.diagnosticReverseMap],
                      1 + mc.calls + ri.calls,
                      mc.hits \o ri.hits)
                : ri \in {addEach(ast, mc.d, ast[diagnostic].relatedInformation)}})
            : mc \in {addEach(ast,
                              [d EXCEPT !.diagnosticReverseMap =
                                   @ \cup {[diagnostic |-> diagnostic, id |-> id]}],
                              ast[diagnostic].messageChain)}})
        : id \in {Cardinality(d.diagnosticMapById) + 1}})

\* diagnosticMaps.addDiagnostic.
addDiagnostic(ast, d, diagnostic) ==
    IF Registered(d, diagnostic) # {}
    THEN Added(Only(Registered(d, diagnostic)).id, d, 1,
               <<[diagnostic |-> diagnostic,
                  id |-> Only(Registered(d, diagnostic)).id]>>)
    ELSE Only({
        Only({
            Only({
                Added(id,
                      [diagnosticMapById |->
                           PutById(ri.d.diagnosticMapById,
                                   [Id |-> id,
                                    Message |-> ast[diagnostic].message,
                                    MessageChain |-> mc.ids,
                                    RelatedInformation |-> ri.ids]),
                       diagnosticReverseMap |-> ri.d.diagnosticReverseMap],
                      1 + mc.calls + ri.calls,
                      mc.hits \o ri.hits)
                : ri \in {addEach(ast, mc.d, ast[diagnostic].relatedInformation)}})
            : mc \in {addEach(ast,
                              [d EXCEPT !.diagnosticReverseMap =
                                   @ \cup {[diagnostic |-> diagnostic, id |-> id]}],
                              ast[diagnostic].messageChain)}})
        : id \in {Cardinality(d.diagnosticMapById) + 1}})

\* One of the two loops of addDiagnostic: the ids appended, in order.
addEach(ast, d, children) ==
    IF children = <<>>
    THEN [ids |-> <<>>, d |-> d, calls |-> 0, hits |-> <<>>]
    ELSE Only({
        Only({
            [ids |-> <<first.id>> \o rest.ids, d |-> rest.d,
             calls |-> first.calls + rest.calls, hits |-> first.hits \o rest.hits]
            : rest \in {addEach(ast, first.d, Tail(children))}})
        : first \in {addDiagnostic(ast, d, Head(children))}})

\* diagnosticMaps.GetDiagnostics: the entries in the order of their ids.
RECURSIVE GetDiagnostics(_)
GetDiagnostics(byId) ==
    IF byId = {} THEN <<>>
    ELSE LET least == CHOOSE e \in byId : \A f \in byId : e.Id <= f.Id
         IN  <<least>> \o GetDiagnostics(byId \ {least})

\* LanguageService.GetDiagnostics, one addDiagnostic of its loops at a time:
\* it starts from empty maps and adds the diagnostics the program reports.
NoAdd == [diagnostic |-> 0, before |-> NoMaps, id |-> 0, calls |-> 0, hits |-> <<>>]

InitDiagnostics ==
    /\ InitRun
    /\ probe \in {[phase |-> "diagnostics",
                   ast |-> [n \in Pointers |-> [p[n] EXCEPT !.message = MessageOf(n)]],
                   d |-> NoMaps, adds |-> 0, last |-> NoAdd] : p \in Programs}

AddDiagnostic(diagnostic) ==
    /\ probe.phase = "diagnostics"
    /\ probe.adds < MaxAdds
    /\ \E a \in {addDiagnostic(probe.ast, probe.d, diagnostic)} :
           probe' = [probe EXCEPT !.d = a.d,
                                  !.adds = @ + 1,
                                  !.last = [diagnostic |-> diagnostic,
                                            before |-> probe.d, id |-> a.id,
                                            calls |-> a.calls, hits |-> a.hits]]
    /\ UNCHANGED <<pumpVars, callVars>>

NextDiagnostics == \E diagnostic \in Pointers : AddDiagnostic(diagnostic)

SpecDiagnostics == InitDiagnostics /\ [][NextDiagnostics]_vars

\* The entry of diagnosticMapById under id, as the set of the entries found.
ById(id) == {e \in probe.d.diagnosticMapById : e.Id = id}

\* The ids listed stand, in order, for the entries built from children.
Resolves(ids, children) ==
    /\ Len(ids) = Len(children)
    /\ \A k \in 1..Len(ids) :
           \E e \in ById(ids[k]) : e.Message = probe.ast[children[k]].message

\* C25: no two diagnostics registered share an id, every diagnostic
\* registered has its entry under its id, and the ids in the MessageChain and
\* the RelatedInformation of the entry are those of the entries built from
\* its children; GetDiagnostics returns one entry per diagnostic registered.
C25_IdsAreDistinct ==
    probe.phase = "diagnostics" =>
        /\ \A a, b \in probe.d.diagnosticReverseMap :
               a.id = b.id => a.diagnostic = b.diagnostic
        /\ \A r \in probe.d.diagnosticReverseMap :
               \E e \in ById(r.id) :
                   /\ e.Message = probe.ast[r.diagnostic].message
                   /\ Resolves(e.MessageChain, probe.ast[r.diagnostic].messageChain)
                   /\ Resolves(e.RelatedInformation,
                               probe.ast[r.diagnostic].relatedInformation)
        /\ Len(GetDiagnostics(probe.d.diagnosticMapById))
               = Cardinality(probe.d.diagnosticReverseMap)

\* C26: addDiagnostic of a diagnostic that is registered returns the id it
\* is registered with, leaves both maps as they were and invokes nothing;
\* and every nested invocation that found its diagnostic registered, a
\* shared child or one pointing back to a diagnostic under way, returned
\* the id that diagnostic is registered with.
C26_AddIsIdempotent ==
    (probe.phase = "diagnostics" /\ probe.adds > 0) =>
        /\ Registered(probe.last.before, probe.last.diagnostic) # {} =>
               /\ probe.last.id =
                      Only(Registered(probe.last.before, probe.last.diagnostic)).id
               /\ probe.d = probe.last.before
               /\ probe.last.calls = 1
        /\ \A k \in 1..Len(probe.last.hits) :
               probe.last.hits[k] \in probe.d.diagnosticReverseMap
        /\ probe.last.before.diagnosticReverseMap \subseteq
               probe.d.diagnosticReverseMap
        /\ probe.last.calls <= 1 + 2 * Cardinality(probe.d.diagnosticReverseMap)

\* Diagnostic 1 and diagnostic 2 point to each other; diagnostic 1 was added,
\* which reached it again through diagnostic 2, and then added once more.
C26_Witness ==
    /\ probe.phase = "diagnostics"
    /\ probe.adds = 2
    /\ probe.ast[1].messageChain = <<2>>
    /\ probe.ast[2].messageChain = <<1>>
    /\ probe.last.diagnostic = 1
    /\ probe.last.calls = 1
    /\ probe.last.before.diagnosticReverseMap # {}
    /\ probe.d = probe.last.before

=============================================================================
